---- MODULE Spec2Model ----
(***************************************************************************)
(* Poll-and-download flows of panops-data-registry:                        *)
(*   - src/utils/gcs_utils.py   download_blob, download_blobs,             *)
(*                              download_blob_if_exists                    *)
(*   - src/utils/gee_utils.py   _export_image, export_collection,          *)
(*                              download_when_complete                     *)
(*   - src/gbif/get_gbif_data.py check_download_job_and_download_file,     *)
(*                              download_request_to_disk                   *)
(* Strings are sequences of one-character strings, so that the pathlib     *)
(* conversions (Path.name, Path.stem) and prefix listing are computed.     *)
(***************************************************************************)
EXTENDS Integers, Sequences, FiniteSets, TLC

VARIABLES
    \* object storage and the local output directory
    remote,      \* blob name -> generation of the object (0: no such object)
    local,       \* local file name -> [present, src, gen]
    ops,         \* calls and log lines of the last download_blob_if_exists call
    transfers,   \* number of blob.download_to_filename calls so far
    calls,       \* number of direct download_blob_if_exists calls so far
    lastCall,    \* [stem, overwrite] of the last direct call
    \* download_when_complete
    pc,          \* "idle" | "loop" | "pass" | "done" | "raised"
    tasks,       \* the task list (mutated in place by tasks.remove)
    snapshot,    \* tasks.copy() of the running pass
    idx,         \* position of the for loop in snapshot
    desc,        \* task -> status["description"]
    lastState,   \* task -> state returned by its last status() ("NONE": never polled)
    attempts,    \* download_blob_if_exists calls made by the waiter: <<task, file_stem>>
    log,         \* log.error lines of the waiter: the task id each names
    \* check_download_job_and_download_file
    gPc,         \* "idle" | "polling" | "returned" | "raised"
    gElapsed,    \* time.time() - start_time, in seconds
    gMaxHours,   \* max_hours
    gQueries,    \* number of check_download_status calls
    gStatus,     \* status returned by the last query
    gOutKind,    \* what output_path is on disk: "dir" | "file" | "absent"
    gName,       \* name argument ("" stands for None)
    gFiles,      \* files inside output_path
    gDownloads,  \* number of occ.download_get calls
    gExc,        \* the exception raised: <<type, message parts>>
    \* export_collection
    ePc,         \* "idle" | "validate" | "export" | "returned" | "raised"
    eColl,       \* the collection: a sequence of images, each its band names
    eFlatten, eDry, eTarget,
    eI, eJ,      \* image index, band index
    eTasks,      \* the list of tasks built so far
    eBucket,     \* "absent" | "exists" | "forbidden" | "created"
    eEvents,     \* storage and task calls in order
    \* the scripts around export_collection and _export_image
    sExc,        \* exception raised while building ExportParams ("none" if none)
    \* merge phase of vodca/get_vodca_data.py main
    vPc,         \* "idle" | "check" | "merge" | "done" | "raised"
    vDry,        \* args.dry_run
    vDir,        \* out_dir: file name -> the original rasters its content comes from
    vDir0,       \* out_dir as the merge phase found it
    vPrefixes,   \* prefixes still to merge, in the order of list(set(prefixes))
    vMerges,     \* merge_rasters calls: <<prefix, names of the rasters merged>>
    \* download_bucket
    bPc,         \* "idle" | "start" | "blobs" | "done" | "raised"
    bDir,        \* does local_path exist as a directory
    bQueue,      \* blobs of bucket.list_blobs() not yet handed to download_blob
    \* download_files
    tJobs,       \* worker -> [odir, file, body]: its url and destination
    tPc,         \* worker -> "idle" | "mkdir" | "open" | "get" | "write" | "close" | "done"
    tDirs,       \* the directories that exist
    tFiles,      \* <<odir, file>> -> content of the file (<<>>: no such file)
    \* failing status queries
    qErr,        \* number of status queries that raised
    \* main of gbif/get_gbif_data.py and data/download_gbif.py
    gm,          \* [pc, script, query_file, query_exists, key, download_key, inits, exc]
    \* assign_pft_priority
    pft,         \* [pc, growth_form, result]
    \* what a script's main does with the jobs its export step returned
    scr,         \* [pc, script, download]
    \* main of modis/get_data.py, run next to download_when_complete
    mw           \* [pc, tasks, snapshot, idx, local, seen, sleptEmpty]

matVars  == <<remote, local, ops, transfers, calls, lastCall>>
waitVars == <<pc, tasks, snapshot, idx, desc, lastState, attempts, log>>
gbifVars == <<gPc, gElapsed, gMaxHours, gQueries, gStatus, gOutKind, gName,
              gFiles, gDownloads, gExc>>
expVars  == <<ePc, eColl, eFlatten, eDry, eTarget, eI, eJ, eTasks, eBucket, eEvents>>
vodVars  == <<vPc, vDry, vDir, vDir0, vPrefixes, vMerges>>
bktVars  == <<bPc, bDir, bQueue>>
thrVars  == <<tJobs, tPc, tDirs, tFiles>>
restVars == <<sExc, vodVars, bktVars, thrVars, qErr>>
moreVars == <<gm, pft, scr, mw>>
vars     == <<matVars, waitVars, gbifVars, expVars, restVars, moreVars>>

---------------------------------------------------------------------------
(* Strings and pathlib *)

TIF == <<".", "t", "i", "f">>

sA   == <<"a">>
sAB  == <<"a", ".", "b">>
sB   == <<"b">>
sC   == <<"c">>

\* largest index of character c in s, 0 when c does not occur (str.rfind + 1)
RECURSIVE RFind(_, _)
RFind(s, c) ==
    IF s = <<>> THEN 0
    ELSE IF s[Len(s)] = c THEN Len(s)
    ELSE RFind(SubSeq(s, 1, Len(s) - 1), c)

\* Path(s).name: the last path component
PathName(s) == SubSeq(s, RFind(s, "/") + 1, Len(s))

\* as PathStem, cutting at the first dot instead of the last
PathStemFirstDot(s) ==
    LET name == PathName(s)
        dots == {i \in 1..Len(name) : name[i] = "."}
        i    == IF dots = {} THEN 0 ELSE CHOOSE k \in dots : \A m \in dots : k <= m
    IN  IF i > 1 THEN SubSeq(name, 1, i - 1) ELSE name

\* Path(s).stem: the name without its last suffix (a leading or trailing dot
\* starts no suffix)
PathStem(s) ==
    LET name == PathName(s)
        i    == RFind(name, ".")
    IN  IF i > 1 /\ i < Len(name) THEN SubSeq(name, 1, i - 1) ELSE name

\* str.startswith
StartsWith(s, p) == Len(p) <= Len(s) /\ SubSeq(s, 1, Len(p)) = p

---------------------------------------------------------------------------
(* Object storage and the output directory *)

MaxGen == 2

\* file stems handed to download_blob_if_exists: Earth Engine task descriptions
FileStems == {sA, sAB}

\* the objects a bucket may hold, in the (lexicographic) order list_blobs yields
BlobOrder == << sA \o <<"-", "0">> \o TIF,
                sAB \o TIF,
                sA \o TIF,
                <<"d", "/">> \o sA \o TIF >>

BlobNames == {BlobOrder[i] : i \in 1..Len(BlobOrder)}

LocalNames == {PathName(b) : b \in BlobNames} \cup {s \o TIF : s \in FileStems}

Absent == [present |-> FALSE, src |-> <<>>, gen |-> 0]
\* a file that was in the directory before any download
Old    == [present |-> TRUE, src |-> <<>>, gen |-> 0]
\* what blob.download_to_filename writes
Fetched(b) == [present |-> TRUE, src |-> b, gen |-> remote[b]]

Ev(op, arg) == <<op, arg>>

\* blob.exists()
BlobExists(name) == name \in BlobNames /\ remote[name] > 0

\* list(bucket.list_blobs(prefix=p))
ListBlobs(p) == SelectSeq(BlobOrder, LAMBDA b : remote[b] > 0 /\ StartsWith(b, p))

\* Path(out_dir, name).exists()
LocalExists(w, name) == name \in LocalNames /\ w.local[name].present

\* download_blob without the unlink of an existing file
DownloadBlobKeepOld(w, b) ==
    LET name == PathName(b)
    IN  [w EXCEPT !.ops = @ \o <<Ev("info:downloading", name), Ev("download_to_filename", b)>>,
                  !.local[name] = Fetched(b),
                  !.transfers = @ + 1]

\* download_blob(blob, out_dir); w = [local, ops, transfers, exc, net], where
\* exc is the exception propagating out of the call ("none": the call returns)
\* and net = "down" makes blob.download_to_filename raise, leaving no file
DownloadBlob(w, b) ==
    LET name == PathName(b)
        pre  == [w EXCEPT !.ops = @ \o <<Ev("info:downloading", name)>>]
        w1   == IF LocalExists(pre, name)
                THEN [pre EXCEPT !.ops = @ \o <<Ev("warning:overwriting", name), Ev("unlink", name)>>,
                                 !.local[name] = Absent]
                ELSE pre
    IN  IF w.net = "down"
        THEN [w1 EXCEPT !.ops = @ \o <<Ev("download_to_filename", b)>>,
                        !.transfers = @ + 1,
                        !.exc = "ConnectionError"]
        ELSE [w1 EXCEPT !.ops = @ \o <<Ev("download_to_filename", b)>>,
                        !.local[name] = Fetched(b),
                        !.transfers = @ + 1]

\* as DownloadBlobs, the loop ending after the first blob
DownloadBlobsFirstOnly(w, blobs) ==
    IF blobs = <<>> THEN w
    ELSE DownloadBlob([w EXCEPT !.ops = @ \o <<Ev("info:downloading", Head(blobs))>>], Head(blobs))

\* download_blobs(blobs, out_dir)
RECURSIVE DownloadBlobs(_, _)
DownloadBlobs(w, blobs) ==
    IF blobs = <<>> \/ w.exc # "none" THEN w
    ELSE DownloadBlobs(
            DownloadBlob([w EXCEPT !.ops = @ \o <<Ev("info:downloading", Head(blobs))>>], Head(blobs)),
            Tail(blobs))

\* as DownloadBlobIfExists, ignoring the overwrite flag (always downloads)
DownloadBlobIfExistsAlways(w, file_stem, overwrite) ==
    LET file_name == file_stem \o TIF
        w0 == [w EXCEPT !.ops = @ \o <<Ev("blob.exists", file_name)>>]
    IN  IF BlobExists(file_name)
        THEN DownloadBlob(w0, file_name)
        ELSE LET blobs == ListBlobs(PathStem(file_name))
                 w1 == [w0 EXCEPT !.ops = @ \o <<Ev("warning:not_found", file_name),
                                                 Ev("list_blobs", PathStem(file_name))>>]
             IN  IF blobs # <<>>
                 THEN DownloadBlobs(w1, blobs)
                 ELSE [w1 EXCEPT !.ops = @ \o <<Ev("error:not_found", file_name)>>]

\* as DownloadBlobIfExists, listing the parts before looking for the exact
\* object and preferring them
DownloadBlobIfExistsPartsFirst(w, file_stem, overwrite) ==
    LET file_name == file_stem \o TIF
        blobs == ListBlobs(PathStem(file_name))
        w0 == [w EXCEPT !.ops = @ \o <<Ev("list_blobs", PathStem(file_name))>>]
    IN  IF blobs # <<>>
        THEN DownloadBlobs(w0, blobs)
        ELSE [w0 EXCEPT !.ops = @ \o <<Ev("error:not_found", file_name)>>]

\* as DownloadBlobIfExists, a missing output being fatal
DownloadBlobIfExistsRaise(w, file_stem, overwrite) ==
    LET file_name == file_stem \o TIF
        w0 == [w EXCEPT !.ops = @ \o <<Ev("blob.exists", file_name)>>]
    IN  IF BlobExists(file_name)
        THEN DownloadBlob(w0, file_name)
        ELSE LET blobs == ListBlobs(PathStem(file_name))
                 w1 == [w0 EXCEPT !.ops = @ \o <<Ev("warning:not_found", file_name),
                                                 Ev("list_blobs", PathStem(file_name))>>]
             IN  IF blobs # <<>>
                 THEN DownloadBlobs(w1, blobs)
                 ELSE [w1 EXCEPT !.exc = "NotFound"]

\* download_blob_if_exists(file_stem, bucket, out_dir, overwrite)
DownloadBlobIfExists(w, file_stem, overwrite) ==
    LET file_name == file_stem \o TIF
        w0 == [w EXCEPT !.ops = @ \o <<Ev("blob.exists", file_name)>>]
    IN  IF BlobExists(file_name)
        THEN IF ~LocalExists(w0, file_name) \/ overwrite
             THEN DownloadBlob(w0, file_name)
             ELSE [w0 EXCEPT !.ops = @ \o <<Ev("info:skipping", file_name)>>]
        ELSE LET blobs == ListBlobs(PathStem(file_name))
                 w1 == [w0 EXCEPT !.ops = @ \o <<Ev("warning:not_found", file_name),
                                                 Ev("list_blobs", PathStem(file_name))>>]
             IN  IF blobs # <<>>
                 THEN DownloadBlobs(w1, blobs)
                 ELSE [w1 EXCEPT !.ops = @ \o <<Ev("error:not_found", file_name)>>]

\* the state a call starts from: its own, empty record of calls and log lines
World ==
    [local |-> local, ops |-> <<>>, transfers |-> transfers, exc |-> "none", net |-> "up"]

MaxCalls == 2

\* a script calls download_blob_if_exists(stem, bucket, out_dir, overwrite)
CallDownloadBlobIfExists(stem, overwrite) ==
    /\ pc = "idle"
    /\ calls < MaxCalls
    /\ LET w == DownloadBlobIfExists(World, stem, overwrite)
       IN  /\ local' = w.local
           /\ ops' = w.ops
           /\ transfers' = w.transfers
    /\ calls' = calls + 1
    /\ lastCall' = [stem |-> stem, overwrite |-> overwrite]
    /\ UNCHANGED <<remote, waitVars, gbifVars, expVars, restVars, moreVars>>

\* the export platform rewrites an object of the bucket
RemoteChange(b) ==
    /\ remote[b] > 0
    /\ remote[b] < MaxGen
    /\ remote' = [remote EXCEPT ![b] = @ + 1]
    /\ UNCHANGED <<local, ops, transfers, calls, lastCall, waitVars, gbifVars, expVars, restVars, moreVars>>

---------------------------------------------------------------------------
(* download_when_complete *)

MaxTasks == 2

Tasks == 1..MaxTasks

\* task.status()["state"] as the platform reports it
TaskStates == {"RUNNING", "COMPLETED", "FAILED", "CANCELLED"}

Range(s) == {s[i] : i \in 1..Len(s)}

\* list.remove(x): drops the first element equal to x
RECURSIVE RemoveFirst(_, _)
RemoveFirst(s, x) ==
    IF s = <<>> THEN <<>>
    ELSE IF Head(s) = x THEN Tail(s)
    ELSE <<Head(s)>> \o RemoveFirst(Tail(s), x)

\* the waiter's part of the state one loop body works on
WaiterState ==
    [tasks |-> tasks, attempts |-> attempts, log |-> log, w |-> World]

\* as HandleStatus, a completed task staying in the list
HandleStatusKeepCompleted(st, task, state) ==
    IF state = "COMPLETED"
    THEN [st EXCEPT !.w = DownloadBlobIfExists(st.w, desc[task], TRUE),
                    !.attempts = @ \o <<(<<task, desc[task]>>)>>]
    ELSE IF state = "FAILED"
    THEN [st EXCEPT !.log = @ \o <<task>>, !.tasks = RemoveFirst(@, task)]
    ELSE st

\* as HandleStatus, a failed task's output being fetched all the same
HandleStatusDownloadFailed(st, task, state) ==
    IF state \in {"COMPLETED", "FAILED"}
    THEN LET w1 == DownloadBlobIfExists(st.w, desc[task], TRUE)
         IN  [st EXCEPT !.w = w1,
                        !.attempts = @ \o <<(<<task, desc[task]>>)>>,
                        !.tasks = RemoveFirst(@, task)]
    ELSE st

\* as HandleStatus, a task that is still running being dropped from the list
HandleStatusDropPending(st, task, state) ==
    IF state = "COMPLETED"
    THEN LET w1 == DownloadBlobIfExists(st.w, desc[task], TRUE)
         IN  [st EXCEPT !.w = w1,
                        !.attempts = @ \o <<(<<task, desc[task]>>)>>,
                        !.tasks = IF w1.exc = "none" THEN RemoveFirst(@, task) ELSE @]
    ELSE IF state = "FAILED"
    THEN [st EXCEPT !.log = @ \o <<task>>, !.tasks = RemoveFirst(@, task)]
    ELSE [st EXCEPT !.tasks = RemoveFirst(@, task)]

\* as HandleStatus, a completed task leaving the list before its download
HandleStatusRemoveFirst(st, task, state) ==
    IF state = "COMPLETED"
    THEN LET w1 == DownloadBlobIfExists(st.w, desc[task], TRUE)
         IN  [st EXCEPT !.w = w1,
                        !.attempts = @ \o <<(<<task, desc[task]>>)>>,
                        !.tasks = RemoveFirst(@, task)]
    ELSE IF state = "FAILED"
    THEN [st EXCEPT !.log = @ \o <<task>>, !.tasks = RemoveFirst(@, task)]
    ELSE st

\* the body of the for loop for one task whose status() returned `state`
HandleStatus(st, task, state) ==
    IF state = "COMPLETED"
    THEN LET w1 == DownloadBlobIfExists(st.w, desc[task], TRUE)
         IN  [st EXCEPT !.w = w1,
                        !.attempts = @ \o <<(<<task, desc[task]>>)>>,
                        \* an exception leaves the loop before tasks.remove
                        !.tasks = IF w1.exc = "none" THEN RemoveFirst(@, task) ELSE @]
    ELSE IF state = "FAILED"
    THEN [st EXCEPT !.log = @ \o <<task>>, !.tasks = RemoveFirst(@, task)]
    ELSE st

\* while tasks: (the list is not empty) for task in tasks.copy():
BeginPass ==
    /\ pc = "loop"
    /\ tasks # <<>>
    /\ snapshot' = tasks
    /\ idx' = 1
    /\ pc' = "pass"
    /\ UNCHANGED <<tasks, desc, lastState, attempts, log, matVars, gbifVars, expVars, restVars, moreVars>>

\* status = task.status() and the branches on status["state"]
PollTask(state) ==
    /\ pc = "pass"
    /\ idx <= Len(snapshot)
    /\ LET task == snapshot[idx]
           st   == HandleStatus(WaiterState, task, state)
       IN  /\ lastState' = [lastState EXCEPT ![task] = state]
           /\ tasks' = st.tasks
           /\ attempts' = st.attempts
           /\ log' = st.log
           /\ local' = st.w.local
           /\ transfers' = st.w.transfers
           /\ ops' = IF state = "COMPLETED" THEN st.w.ops ELSE ops
           /\ pc' = IF st.w.exc = "none" THEN "pass" ELSE "raised"
    /\ idx' = idx + 1
    /\ UNCHANGED <<snapshot, desc, remote, calls, lastCall, gbifVars, expVars, restVars, moreVars>>

\* the pass is over and tasks are left: time.sleep(60)
EndPassSleep ==
    /\ pc = "pass"
    /\ idx > Len(snapshot)
    /\ tasks # <<>>
    /\ pc' = "loop"
    /\ UNCHANGED <<tasks, snapshot, idx, desc, lastState, attempts, log,
                   matVars, gbifVars, expVars, restVars, moreVars>>

\* the pass is over and no task is left: no sleep
EndPassNoSleep ==
    /\ pc = "pass"
    /\ idx > Len(snapshot)
    /\ tasks = <<>>
    /\ pc' = "loop"
    /\ UNCHANGED <<tasks, snapshot, idx, desc, lastState, attempts, log,
                   matVars, gbifVars, expVars, restVars, moreVars>>

\* while tasks: the list is empty, "All tasks and downloads completed."
Finish ==
    /\ pc = "loop"
    /\ tasks = <<>>
    /\ pc' = "done"
    /\ UNCHANGED <<tasks, snapshot, idx, desc, lastState, attempts, log,
                   matVars, gbifVars, expVars, restVars, moreVars>>

---------------------------------------------------------------------------
(* check_download_job_and_download_file (GBIF) *)

MaxHours == 1

SecondsPerHour == 3600
SleepSeconds == 60
\* how long a status query may take, in seconds
Latencies == {0, 1}

GKey == "0001234-240101000000000"

\* download_meta(key)["status"] as the registry reports it
GbifStatuses == {"PREPARING", "RUNNING", "SUCCEEDED", "FAILED", "KILLED"}

NoExc == [type |-> "none", msg |-> <<>>]

GbifState ==
    [pc |-> gPc, elapsed |-> gElapsed, queries |-> gQueries, status |-> gStatus,
     outKind |-> gOutKind, files |-> gFiles, downloads |-> gDownloads, exc |-> gExc]

\* as DownloadRequestToDisk, the archive keeping the name of the key
DownloadRequestToDiskKeepKey(g, key, name) ==
    IF g.outKind # "dir"
    THEN [g EXCEPT !.downloads = @ + 1,
                   !.exc = [type |-> "OSError", msg |-> <<key, ".zip">>]]
    ELSE LET stem == IF name = <<>> THEN key ELSE name[1]
         IN  [g EXCEPT !.downloads = @ + 1,
                       !.files = @ \cup {<<key, "zip">>, <<stem, "json">>}]

\* download_request_to_disk(key, output_path, name); name = <<>> stands for None
DownloadRequestToDisk(g, key, name) ==
    IF g.outKind # "dir"
    THEN \* occ.download_get cannot open output_path/<key>.zip
         [g EXCEPT !.downloads = @ + 1,
                   !.exc = [type |-> "OSError", msg |-> <<key, ".zip">>]]
    ELSE LET got     == g.files \cup {<<key, "zip">>}
             renamed == IF name # <<>>
                        THEN (got \ {<<key, "zip">>}) \cup {<<name[1], "zip">>}
                        ELSE got
             stem    == IF name = <<>> THEN key ELSE name[1]
         IN  [g EXCEPT !.downloads = @ + 1,
                       !.files = renamed \cup {<<stem, "json">>}]

\* output_path.unlink() followed by the timeout failure
UnlinkAndRaise(g, key, max_hours) ==
    IF g.outKind = "file"
    THEN [g EXCEPT !.outKind = "absent", !.pc = "raised",
                   !.exc = [type |-> "GbifDownloadFailure",
                            msg |-> <<"Download job ", key, " did not complete within",
                                      ToString(max_hours), ". Aborting">>]]
    ELSE \* a directory (IsADirectoryError) or nothing (FileNotFoundError) at output_path
         [g EXCEPT !.pc = "raised",
                   !.exc = [type |-> "OSError", msg |-> <<"unlink">>]]

\* as GbifIteration, FAILED being waited on like a pending status
GbifIterationIgnoreFailed(g, key, name, max_hours, status, latency) ==
    LET g1 == [g EXCEPT !.queries = @ + 1, !.status = status, !.elapsed = @ + latency]
    IN  IF status = "SUCCEEDED"
        THEN LET g2 == DownloadRequestToDisk(g1, key, name)
             IN  [g2 EXCEPT !.pc = IF g2.exc = NoExc THEN "returned" ELSE "raised"]
        ELSE IF g1.elapsed > max_hours * SecondsPerHour
        THEN UnlinkAndRaise(g1, key, max_hours)
        ELSE [g1 EXCEPT !.elapsed = @ + SleepSeconds]

\* as GbifIteration, the deadline being looked at before the status
GbifIterationDeadlineFirst(g, key, name, max_hours, status, latency) ==
    LET g1 == [g EXCEPT !.queries = @ + 1, !.status = status, !.elapsed = @ + latency]
    IN  IF g1.elapsed > max_hours * SecondsPerHour
        THEN UnlinkAndRaise(g1, key, max_hours)
        ELSE IF status = "SUCCEEDED"
        THEN LET g2 == DownloadRequestToDisk(g1, key, name)
             IN  [g2 EXCEPT !.pc = IF g2.exc = NoExc THEN "returned" ELSE "raised"]
        ELSE IF status = "FAILED"
        THEN [g1 EXCEPT !.pc = "raised",
                        !.exc = [type |-> "GbifDownloadFailure",
                                 msg |-> <<"Download job ", key, " failed.">>]]
        ELSE [g1 EXCEPT !.elapsed = @ + SleepSeconds]

\* one iteration of the while True loop: the status query returned `status`
\* after `latency` seconds
GbifIteration(g, key, name, max_hours, status, latency) ==
    LET g1 == [g EXCEPT !.queries = @ + 1, !.status = status, !.elapsed = @ + latency]
    IN  IF status = "SUCCEEDED"
        THEN LET g2 == DownloadRequestToDisk(g1, key, name)
             IN  [g2 EXCEPT !.pc = IF g2.exc = NoExc THEN "returned" ELSE "raised"]
        ELSE IF status = "FAILED"
        THEN [g1 EXCEPT !.pc = "raised",
                        !.exc = [type |-> "GbifDownloadFailure",
                                 msg |-> <<"Download job ", key, " failed.">>]]
        ELSE IF g1.elapsed > max_hours * SecondsPerHour
        THEN UnlinkAndRaise(g1, key, max_hours)
        ELSE [g1 EXCEPT !.elapsed = @ + SleepSeconds]

\* gm.download_key is the key the function was called with
GbifIterate(status, latency) ==
    /\ gPc = "polling"
    /\ LET g == GbifIteration(GbifState, gm.download_key, gName, gMaxHours, status, latency)
       IN  /\ gPc' = g.pc
           /\ gElapsed' = g.elapsed
           /\ gQueries' = g.queries
           /\ gStatus' = g.status
           /\ gOutKind' = g.outKind
           /\ gFiles' = g.files
           /\ gDownloads' = g.downloads
           /\ gExc' = g.exc
    /\ UNCHANGED <<gMaxHours, gName, matVars, waitVars, expVars, restVars, moreVars>>

---------------------------------------------------------------------------
(* export_collection and _export_image *)

MaxImages == 2

\* the band names of the images a collection may hold (bandNames().getInfo())
Images == { <<sA, sB>>, <<sC>>, <<sB, sA>> }

RECURSIVE SeqsUpTo(_, _)
SeqsUpTo(S, n) ==
    IF n = 0 THEN {<<>>}
    ELSE LET shorter == SeqsUpTo(S, n - 1)
         IN  shorter \cup {Append(q, x) : q \in {r \in shorter : Len(r) = n - 1}, x \in S}

Collections == SeqsUpTo(Images, MaxImages)

\* as ExportImage, the task being named after the image's first band
ExportImageFirstBand(bands, filename, target, dry_run) ==
    [description |-> bands[1], fileNamePrefix |-> bands[1], bands |-> bands,
     dest |-> IF target = "gcs" THEN "toCloudStorage" ELSE "toDrive",
     started |-> ~dry_run]

\* as ExportImage, the task being started in a dry run too
ExportImageAlwaysStart(bands, filename, target, dry_run) ==
    [description |-> filename, fileNamePrefix |-> filename, bands |-> bands,
     dest |-> IF target = "gcs" THEN "toCloudStorage" ELSE "toDrive",
     started |-> TRUE]

\* _export_image(image, filename, export_params, dry_run): the task it returns;
\* bands are the bands of the image handed over
ExportImage(bands, filename, target, dry_run) ==
    [description |-> filename, fileNamePrefix |-> filename, bands |-> bands,
     dest |-> IF target = "gcs" THEN "toCloudStorage" ELSE "toDrive",
     started |-> ~dry_run]

\* as ExportStep, a flattened image being left after its first band
ExportStepOneBand(e, flatten, target, dry_run) ==
    LET bands == e.coll[e.i]
        band  == bands[e.j]
        task  == IF flatten THEN ExportImage(<<band>>, band, target, dry_run)
                 ELSE ExportImage(bands, bands[1], target, dry_run)
    IN  [e EXCEPT !.tasks = Append(@, task),
                  !.events = IF task.started THEN Append(@, Ev("start", task.description)) ELSE @,
                  !.i = @ + 1,
                  !.j = 1]

\* one _export_image call of the loops of export_collection, and the advance
\* to the next band or image; e = [coll, i, j, tasks, events]
ExportStep(e, flatten, target, dry_run) ==
    LET bands == e.coll[e.i]
        band  == bands[e.j]
        task  == IF flatten THEN ExportImage(<<band>>, band, target, dry_run)
                 ELSE ExportImage(bands, bands[1], target, dry_run)
        last  == ~flatten \/ e.j = Len(bands)
    IN  [e EXCEPT !.tasks = Append(@, task),
                  !.events = IF task.started THEN Append(@, Ev("start", task.description)) ELSE @,
                  !.i = IF last THEN @ + 1 ELSE @,
                  !.j = IF last THEN 1 ELSE @ + 1]

\* if export_params.target == "gcs" and not dry_run:
\*     validate_bucket_and_create_if_not_exists(export_params.folder)
EValidate ==
    /\ ePc = "validate"
    /\ IF eTarget = "gcs" /\ ~eDry
       THEN CASE eBucket = "exists" ->
                   /\ eEvents' = Append(eEvents, Ev("get_bucket", <<"folder">>))
                   /\ UNCHANGED eBucket
                   /\ ePc' = "export"
              [] eBucket = "absent" ->
                   /\ eEvents' = eEvents \o <<Ev("get_bucket", <<"folder">>),
                                             Ev("create_bucket", <<"europe-west1", "private">>)>>
                   /\ eBucket' = "created"
                   /\ ePc' = "export"
              [] OTHER ->
                   /\ eEvents' = Append(eEvents, Ev("get_bucket", <<"folder">>))
                   /\ UNCHANGED eBucket
                   /\ ePc' = "raised"
       ELSE /\ ePc' = "export"
            /\ UNCHANGED <<eBucket, eEvents>>
    /\ UNCHANGED <<eColl, eFlatten, eDry, eTarget, eI, eJ, eTasks,
                   matVars, waitVars, gbifVars, restVars, moreVars>>

EExport ==
    /\ ePc = "export"
    /\ eI <= Len(eColl)
    /\ LET e == ExportStep([coll |-> eColl, i |-> eI, j |-> eJ, tasks |-> eTasks,
                            events |-> eEvents], eFlatten, eTarget, eDry)
       IN  /\ eI' = e.i
           /\ eJ' = e.j
           /\ eTasks' = e.tasks
           /\ eEvents' = e.events
    /\ UNCHANGED <<ePc, eColl, eFlatten, eDry, eTarget, eBucket,
                   matVars, waitVars, gbifVars, restVars, moreVars>>

\* return tasks
EReturn ==
    /\ ePc = "export"
    /\ eI > Len(eColl)
    /\ ePc' = "returned"
    /\ UNCHANGED <<eColl, eFlatten, eDry, eTarget, eI, eJ, eTasks, eBucket, eEvents,
                   matVars, waitVars, gbifVars, restVars, moreVars>>

---------------------------------------------------------------------------
(* The scripts: ExportParams, then export_collection or _export_image *)

\* values of cfg["target"]
Targets == {"gcs", "gdrive", "s3"}

\* Path(project_root, cfg["out_path"]).stem of esa_worldcover
EsaStem == <<"w", "c">>

\* as PostInit, every target being let through
PostInitAnyTarget(target) == TRUE

\* ExportParams.__post_init__: TRUE when the object is built, FALSE when
\* ValueError is raised
PostInit(target) == target \in {"gcs", "gdrive"}

\* export_params = ExportParams(..., target=cfg["target"], folder=cfg["bucket"])
EConstruct ==
    /\ ePc = "construct"
    /\ IF PostInit(eTarget)
       THEN /\ ePc' = "built"
            /\ UNCHANGED sExc
       ELSE /\ ePc' = "raised"
            /\ sExc' = "ValueError"
    /\ UNCHANGED <<eColl, eFlatten, eDry, eI, eJ, eTarget, eTasks, eBucket, eEvents,
                   matVars, waitVars, gbifVars, vodVars, bktVars, thrVars, qErr, moreVars>>

\* modis, vodca, chili, canopy_height: export_collection(ic, export_params, ...)
ECallExportCollection ==
    /\ ePc = "built"
    /\ ePc' = "validate"
    /\ UNCHANGED <<eColl, eFlatten, eDry, eI, eJ, eTarget, eTasks, eBucket, eEvents,
                   matVars, waitVars, gbifVars, restVars, moreVars>>

\* esa_worldcover: wc = get_ic(...).first();
\*                 task = _export_image(wc, out_path.stem, export_params)
EsaExportImage ==
    /\ ePc = "built"
    /\ eColl # <<>>
    /\ ~eDry
    /\ LET task == ExportImage(eColl[1], EsaStem, eTarget, FALSE)
       IN  /\ eTasks' = <<task>>
           /\ eEvents' = IF task.started THEN Append(eEvents, Ev("start", task.description))
                         ELSE eEvents
    /\ ePc' = "returned"
    /\ UNCHANGED <<eColl, eFlatten, eDry, eI, eJ, eTarget, eBucket,
                   matVars, waitVars, gbifVars, restVars, moreVars>>

---------------------------------------------------------------------------
(* vodca/get_vodca_data.py: check_multipart_files, merge_multipart_files *)

\* the "00000" of the glob and of the split
Zeros == <<"0", "0", "0", "0", "0">>

\* the prefixes of the multipart groups an output directory may hold
pV  == <<"v">>
pVQ == <<"v", "q">>

\* the file names an output directory may hold: the parts of group v, a
\* merged v.tif, a part of group vq, a merged vq.tif, and an unrelated raster
VPart(prefix, k) == prefix \o Zeros \o <<"_", k>> \o TIF

VNames ==
    { VPart(pV, "1"), VPart(pV, "2"), pV \o TIF,
      VPart(pVQ, "1"), pVQ \o TIF,
      <<"w">> \o TIF }

\* s.find(sub) + 1: where sub first occurs in s, 0 when it does not
Find(s, sub) ==
    LET hits == {i \in 1..(Len(s) - Len(sub) + 1) : SubSeq(s, i, i + Len(sub) - 1) = sub}
    IN  IF hits = {} THEN 0 ELSE CHOOSE i \in hits : \A j \in hits : i <= j

\* s.split("00000")[0]
SplitZerosHead(s) ==
    LET i == Find(s, Zeros)
    IN  IF i = 0 THEN s ELSE SubSeq(s, 1, i - 1)

\* the files of a directory: dir maps a name to the set of original rasters
\* its content was made from, {} when there is no such file
VFiles(dir) == {n \in VNames : dir[n] # {}}

\* out_dir.glob(pattern) for the patterns "*00000*" and f"{prefix}*"
GlobContains(dir, sub) == {n \in VFiles(dir) : Find(n, sub) # 0}
GlobPrefix(dir, prefix) == {n \in VFiles(dir) : StartsWith(n, prefix)}

\* as CheckMultipartFiles, every file of the directory counting as a part
CheckMultipartFilesAnyFile(dir) ==
    {SplitZerosHead(PathStem(file)) : file \in VFiles(dir)}

\* check_multipart_files(out_dir): the set of prefixes; {} stands for None
CheckMultipartFiles(dir) ==
    {SplitZerosHead(PathStem(file)) : file \in GlobContains(dir, Zeros)}

\* as MergeMultipartFiles, the merged files being left on disk
MergeMultipartFilesKeepParts(v, prefix) ==
    LET files    == GlobPrefix(v.dir, prefix)
        out_file == prefix \o TIF
    IN  IF files = {}
        THEN [v EXCEPT !.merges = Append(@, <<prefix, files>>), !.exc = "IndexError"]
        ELSE [v EXCEPT !.merges = Append(@, <<prefix, files>>),
                       !.dir = [n \in VNames |->
                                   IF n = out_file THEN UNION {v.dir[f] : f \in files}
                                   ELSE v.dir[n]]]

\* one iteration of the loop of merge_multipart_files; v = [dir, merges, exc].
\* merge_rasters opens every file of the glob (rasters[0] raises IndexError on
\* an empty list) and writes out_file; then every file of the glob is unlinked,
\* out_file too when the glob held it.
MergeMultipartFiles(v, prefix) ==
    LET files    == GlobPrefix(v.dir, prefix)
        out_file == prefix \o TIF
    IN  IF files = {}
        THEN [v EXCEPT !.merges = Append(@, <<prefix, files>>), !.exc = "IndexError"]
        ELSE [v EXCEPT !.merges = Append(@, <<prefix, files>>),
                       !.dir = [n \in VNames |->
                                   IF n \in files THEN {}
                                   ELSE IF n = out_file THEN UNION {v.dir[f] : f \in files}
                                   ELSE v.dir[n]]]

\* the orders list(set(prefixes)) may come in
Orders(S) == {q \in [1..Cardinality(S) -> S] : \A x \in S : \E k \in 1..Cardinality(S) : q[k] = x}

\* main: if not args.dry_run: prefixes = check_multipart_files(out_dir);
\*       if prefixes is not None: merge_multipart_files(out_dir, prefixes)
VCheck ==
    /\ vPc = "check"
    /\ LET prefixes == CheckMultipartFiles(vDir)
       IN  IF vDry \/ prefixes = {}
           THEN /\ vPc' = "done"
                /\ UNCHANGED vPrefixes
           ELSE /\ vPc' = "merge"
                /\ vPrefixes' \in Orders(prefixes)
    /\ UNCHANGED <<vDry, vDir, vDir0, vMerges,
                   matVars, waitVars, gbifVars, expVars, sExc, bktVars, thrVars, qErr, moreVars>>

\* for prefix in prefixes: ...
VMerge ==
    /\ vPc = "merge"
    /\ vPrefixes # <<>>
    /\ LET v == MergeMultipartFiles([dir |-> vDir, merges |-> vMerges, exc |-> "none"],
                                    Head(vPrefixes))
       IN  /\ vDir' = v.dir
           /\ vMerges' = v.merges
           /\ vPc' = IF v.exc = "none" THEN "merge" ELSE "raised"
           /\ vPrefixes' = IF v.exc = "none" THEN Tail(vPrefixes) ELSE vPrefixes
    /\ UNCHANGED <<vDry, vDir0,
                   matVars, waitVars, gbifVars, expVars, sExc, bktVars, thrVars, qErr, moreVars>>

\* merge_multipart_files returns, and main with it
VReturn ==
    /\ vPc = "merge"
    /\ vPrefixes = <<>>
    /\ vPc' = "done"
    /\ UNCHANGED <<vDry, vDir, vDir0, vPrefixes, vMerges,
                   matVars, waitVars, gbifVars, expVars, sExc, bktVars, thrVars, qErr, moreVars>>

---------------------------------------------------------------------------
(* gcs_utils.py: download_bucket *)

\* download_blob(blob, local_path) with local_path existing or not: without
\* the directory Path.exists() is False and blob.download_to_filename, which
\* opens the file for writing, raises FileNotFoundError
DownloadBlobTo(w, b, dir_exists) ==
    IF dir_exists
    THEN DownloadBlob(w, b)
    ELSE [w EXCEPT !.ops = @ \o <<Ev("info:downloading", PathName(b)),
                                  Ev("download_to_filename", b)>>,
                   !.transfers = @ + 1,
                   !.exc = "FileNotFoundError"]

\* bucket = storage_client.get_bucket(bucket_name); blobs = list(bucket.list_blobs())
BList ==
    /\ bPc = "start"
    /\ bQueue' = ListBlobs(<<>>)
    /\ bPc' = "blobs"
    /\ UNCHANGED <<bDir, matVars, waitVars, gbifVars, expVars, sExc, vodVars, thrVars, qErr, moreVars>>

\* for blob in tqdm(blobs): download_blob(blob, local_path)
BDownload ==
    /\ bPc = "blobs"
    /\ bQueue # <<>>
    /\ LET w == DownloadBlobTo([local |-> local, ops |-> ops, transfers |-> transfers,
                                exc |-> "none", net |-> "up"], Head(bQueue), bDir)
       IN  /\ local' = w.local
           /\ ops' = w.ops
           /\ transfers' = w.transfers
           /\ bPc' = IF w.exc = "none" THEN "blobs" ELSE "raised"
    /\ bQueue' = Tail(bQueue)
    /\ UNCHANGED <<bDir, remote, calls, lastCall,
                   waitVars, gbifVars, expVars, sExc, vodVars, thrVars, qErr, moreVars>>

BReturn ==
    /\ bPc = "blobs"
    /\ bQueue = <<>>
    /\ bPc' = "done"
    /\ UNCHANGED <<bDir, bQueue, matVars, waitVars, gbifVars, expVars, sExc, vodVars, thrVars, qErr, moreVars>>

---------------------------------------------------------------------------
(* data/download_data.py: download_file, download_files *)

MaxUrls == 2

\* the worker threads of the ThreadPoolExecutor, one per url (its default
\* max_workers is above MaxUrls, so every download_file call runs at once)
Workers == 1..MaxUrls

\* ds["url"] and ds["odir"] of the datasets in the configuration
Urls  == { <<"g", "/", "x">>, <<"h", "/", "x">>, <<"h", "/", "y">> }
ODirs == { <<"d">>, <<"e">> }

\* no such file
NoFile == [present |-> FALSE, data |-> {}]

\* Path(odir, url.split("/")[-1])
Destination(job) == <<job.odir, PathName(job.url)>>

Destinations == {Destination([url |-> u, odir |-> o]) : u \in Urls, o \in ODirs}

\* the file of worker w is open: between open(...) and the end of the with block
FileOpen(w) == tPc[w] \in {"get", "write", "close"}

\* make_dir_if_new(odir)
TMkdir(w) ==
    /\ tPc[w] = "mkdir"
    /\ tDirs' = tDirs \cup {tJobs[w].odir}
    /\ tPc' = [tPc EXCEPT ![w] = "open"]
    /\ UNCHANGED <<tJobs, tFiles,
                   matVars, waitVars, gbifVars, expVars, sExc, vodVars, bktVars, qErr, moreVars>>

\* open(Path(odir, filename), "wb"): the file is created or truncated
TOpen(w) ==
    /\ tPc[w] = "open"
    /\ tFiles' = [tFiles EXCEPT ![Destination(tJobs[w])] = [present |-> TRUE, data |-> {}]]
    /\ tPc' = [tPc EXCEPT ![w] = "get"]
    /\ UNCHANGED <<tJobs, tDirs,
                   matVars, waitVars, gbifVars, expVars, sExc, vodVars, bktVars, qErr, moreVars>>

\* response = requests.get(url, timeout=10)
TGet(w) ==
    /\ tPc[w] = "get"
    /\ tPc' = [tPc EXCEPT ![w] = "write"]
    /\ UNCHANGED <<tJobs, tDirs, tFiles,
                   matVars, waitVars, gbifVars, expVars, sExc, vodVars, bktVars, qErr, moreVars>>

\* file.write(response.content): the bytes go to offset 0 of the worker's own
\* file object; what another writer put there is overwritten up to the length
\* of this content, so the file then holds this content alone or, where the
\* other content is longer, a mix of the two
TWrite(w) ==
    /\ tPc[w] = "write"
    /\ \E data \in { {tJobs[w].url}, tFiles[Destination(tJobs[w])].data \cup {tJobs[w].url} } :
          tFiles' = [tFiles EXCEPT ![Destination(tJobs[w])] = [present |-> TRUE, data |-> data]]
    /\ tPc' = [tPc EXCEPT ![w] = "close"]
    /\ UNCHANGED <<tJobs, tDirs,
                   matVars, waitVars, gbifVars, expVars, sExc, vodVars, bktVars, qErr, moreVars>>

\* the with block is left; return odir / filename
TClose(w) ==
    /\ tPc[w] = "close"
    /\ tPc' = [tPc EXCEPT ![w] = "done"]
    /\ UNCHANGED <<tJobs, tDirs, tFiles,
                   matVars, waitVars, gbifVars, expVars, sExc, vodVars, bktVars, qErr, moreVars>>

---------------------------------------------------------------------------
(* Status queries that raise: task.status(), occ.download_meta(key) *)

MaxQueryErrors == 2

\* as OnQueryError, the loop going on to query again
OnQueryErrorRetry(p) == p

\* where a waiter is after its status query raised: neither loop has a try
\* around the query, so the exception leaves the function
OnQueryError(p) == "raised"

\* download_when_complete: status = task.status() raises
PollRaises ==
    /\ pc = "pass"
    /\ idx <= Len(snapshot)
    /\ qErr < MaxQueryErrors
    /\ qErr' = qErr + 1
    /\ pc' = OnQueryError(pc)
    /\ UNCHANGED <<tasks, snapshot, idx, desc, lastState, attempts, log,
                   matVars, gbifVars, expVars, sExc, vodVars, bktVars, thrVars, moreVars>>

\* check_download_job_and_download_file: check_download_status(key) raises
GbifQueryRaises ==
    /\ gPc = "polling"
    /\ qErr < MaxQueryErrors
    /\ qErr' = qErr + 1
    /\ gQueries' = gQueries + 1
    /\ gPc' = OnQueryError(gPc)
    /\ gExc' = IF OnQueryError(gPc) = "raised"
               THEN [type |-> "ConnectionError", msg |-> <<>>] ELSE gExc
    /\ UNCHANGED <<gElapsed, gMaxHours, gStatus, gOutKind, gName, gFiles, gDownloads,
                   matVars, waitVars, expVars, sExc, vodVars, bktVars, thrVars, moreVars>>

\* status = task.status() returned COMPLETED and the connection to the bucket
\* is down: the first blob.download_to_filename of download_blob_if_exists
\* raises
PollTaskDownloadRaises ==
    /\ pc = "pass"
    /\ idx <= Len(snapshot)
    /\ LET task == snapshot[idx]
           st   == HandleStatus([WaiterState EXCEPT !.w.net = "down"], task, "COMPLETED")
       IN  /\ lastState' = [lastState EXCEPT ![task] = "COMPLETED"]
           /\ tasks' = st.tasks
           /\ attempts' = st.attempts
           /\ log' = st.log
           /\ local' = st.w.local
           /\ transfers' = st.w.transfers
           /\ ops' = st.w.ops
           /\ pc' = IF st.w.exc = "none" THEN "pass" ELSE "raised"
    /\ idx' = idx + 1
    /\ UNCHANGED <<snapshot, desc, remote, calls, lastCall, gbifVars, expVars, restVars, moreVars>>

---------------------------------------------------------------------------
(* gbif/get_gbif_data.py and data/download_gbif.py: main *)

\* the key occ.download(...) returns for a new download job
NewKey == "0005678-240101000000000"

JSON == <<".", "j", "s", "o", "n">>

\* values of -q/--query
QueryFiles ==
    { <<"q">> \o JSON,
      <<"q", ".", "t", "x", "t">>,
      <<"q", ".", "J", "S", "O", "N">>,
      <<"q">> }

\* values of -k/--key; <<>> stands for None
KeyArgs == { <<>>, <<GKey>> }

\* Path(s).suffix: the last suffix of the name, "" when there is none
PathSuffix(s) ==
    LET name == PathName(s)
        i    == RFind(name, ".")
    IN  IF i > 1 /\ i < Len(name) THEN SubSeq(name, i, Len(name)) ELSE <<>>

\* click.Path(exists=True, file_okay=False) on -o/--output: TRUE when the
\* value is converted, FALSE when click ends the command with a usage error
ClickPathIsDir(kind) == kind = "dir"

\* as MainChecks, the suffix of the query file not being looked at
MainChecksNoSuffix(query_file, kind) ==
    IF kind # "dir" THEN "ValueError" ELSE "none"

\* the two checks at the head of main: the exception they raise, "none" if none
MainChecks(query_file, kind) ==
    IF PathSuffix(query_file) # JSON THEN "ValueError"
    ELSE IF kind # "dir" THEN "ValueError"
    ELSE "none"

\* as ChooseKey, a new download job being initiated whatever the key
ChooseKeyAlwaysInit(m) ==
    [m EXCEPT !.inits = @ + 1, !.download_key = NewKey]

\* if key is None: download_key = init_gbif_download(gbif_query)
\* else:           download_key = key
ChooseKey(m) ==
    IF m.key = <<>>
    THEN [m EXCEPT !.inits = @ + 1, !.download_key = NewKey]
    ELSE [m EXCEPT !.download_key = m.key[1]]

\* the command is invoked: click converts the options before main's body runs
GMainClick ==
    /\ gm.pc = "invoked"
    /\ gm' = IF ClickPathIsDir(gOutKind)
             THEN [gm EXCEPT !.pc = "body"]
             ELSE [gm EXCEPT !.pc = "raised", !.exc = "UsageError"]
    /\ UNCHANGED <<matVars, waitVars, gbifVars, expVars, restVars, pft, scr, mw>>

\* if query_file.suffix != ".json": raise ValueError(...)
\* if not output_path.is_dir(): raise ValueError(...)
GMainValidate ==
    /\ gm.pc = "body"
    /\ LET exc == MainChecks(gm.query_file, gOutKind)
       IN  gm' = IF exc = "none" THEN [gm EXCEPT !.pc = "load"]
                 ELSE [gm EXCEPT !.pc = "raised", !.exc = exc]
    /\ UNCHANGED <<matVars, waitVars, gbifVars, expVars, restVars, pft, scr, mw>>

\* with open(query_file, "r", encoding="utf-8") as f: gbif_query = json.load(f)
GMainLoad ==
    /\ gm.pc = "load"
    /\ gm' = IF gm.query_exists THEN [gm EXCEPT !.pc = "key"]
             ELSE [gm EXCEPT !.pc = "raised", !.exc = "FileNotFoundError"]
    /\ UNCHANGED <<matVars, waitVars, gbifVars, expVars, restVars, pft, scr, mw>>

\* the key is chosen and check_download_job_and_download_file is entered
GMainKey ==
    /\ gm.pc = "key"
    /\ gm' = [ChooseKey(gm) EXCEPT !.pc = "check"]
    /\ gPc' = "polling"
    /\ UNCHANGED <<gElapsed, gMaxHours, gQueries, gStatus, gOutKind, gName, gFiles,
                   gDownloads, gExc,
                   matVars, waitVars, expVars, restVars, pft, scr, mw>>

\* check_download_job_and_download_file raised: the exception leaves main
GMainRaised ==
    /\ gm.pc = "check"
    /\ gPc = "raised"
    /\ gm' = [gm EXCEPT !.pc = "raised", !.exc = gExc.type]
    /\ UNCHANGED <<matVars, waitVars, gbifVars, expVars, restVars, pft, scr, mw>>

\* check_download_job_and_download_file returned. gbif/get_gbif_data.py goes
\* on with unzip_and_rename(output_file): the archive is extracted, the
\* extracted directory renamed to <stem>.parquet and the archive unlinked;
\* data/download_gbif.py ends
GMainReturned ==
    /\ gm.pc = "check"
    /\ gPc = "returned"
    /\ gm' = [gm EXCEPT !.pc = "done"]
    /\ LET stem == IF gName = <<>> THEN gm.download_key ELSE gName[1]
       IN  gFiles' = IF gm.script = "gbif"
                     THEN (gFiles \ {<<stem, "zip">>}) \cup {<<stem, "parquet">>}
                     ELSE gFiles
    /\ UNCHANGED <<gPc, gElapsed, gMaxHours, gQueries, gStatus, gOutKind, gName,
                   gDownloads, gExc,
                   matVars, waitVars, expVars, restVars, pft, scr, mw>>

---------------------------------------------------------------------------
(* try/create_try_pfts_improved.py: assign_pft_priority *)

\* the longest growth-form string tried
MaxLen == 4

\* the characters growth forms and search terms are written in: three
\* letters, two of the delimiters, a digit and the double quote
Alphabet == {"w", "s", "g", "_", " ", "1", "\""}

\* a missing value of column X42 (pd.isna)
NA == <<"NaN">>

GrowthForms == SeqsUpTo(Alphabet, MaxLen) \cup {NA}

\* the entries of non_growth_forms that can be written in Alphabet
NonGrowthForms == { <<"s", "s">> }

\* search_terms as main builds it: terms shared by Tree and Shrub and by Shrub
\* and Grass, compound terms listed under a PFT of lower priority than one of
\* their tokens, and terms longer than two characters
SearchTerms ==
    [Tree  |-> { <<"w">>, <<"s", "_", "w">>, <<"w", "w", "w">> },
     Shrub |-> { <<"s">>, <<"s", "_", "w">>, <<"w", " ", "s">>, <<"s", "g">> },
     Grass |-> { <<"g">>, <<"s", "g">>, <<"g", "_", "w">>, <<"g", "g", "g">> }]

\* priority_order, which is also the key order of search_terms
PriorityOrder == <<"Tree", "Shrub", "Grass">>

\* the delimiters of the pattern [_/|,\s]+
Delimiters == {"_", "/", "|", ",", " "}

\* str.strip(chars)
RECURSIVE StripChars(_, _)
StripChars(s, chars) ==
    IF s = <<>> THEN s
    ELSE IF s[1] \in chars THEN StripChars(Tail(s), chars)
    ELSE IF s[Len(s)] \in chars THEN StripChars(SubSeq(s, 1, Len(s) - 1), chars)
    ELSE s

\* float(s) succeeds; for strings over Alphabet these are the digit groups
\* joined by single underscores, whitespace around them allowed
IsFloat(s) ==
    LET t == StripChars(s, {" "})
    IN  /\ t # <<>>
        /\ \A i \in 1..Len(t) : t[i] \in {"1", "_"}
        /\ t[1] = "1"
        /\ t[Len(t)] = "1"
        /\ \A i \in 1..(Len(t) - 1) : ~(t[i] = "_" /\ t[i + 1] = "_")

\* re.split(r"[_/|,\s]+", s): the pieces between runs of delimiters, an empty
\* piece where s starts or ends with a run
RECURSIVE ReSplit(_)
ReSplit(s) ==
    LET at == {i \in 1..Len(s) : s[i] \in Delimiters}
    IN  IF at = {} THEN <<s>>
        ELSE LET i    == CHOOSE k \in at : \A m \in at : k <= m
                 rest == {k \in (i + 1)..Len(s) : s[k] \notin Delimiters}
                 j    == IF rest = {} THEN Len(s) + 1
                         ELSE CHOOSE k \in rest : \A m \in rest : k <= m
             IN  <<SubSeq(s, 1, i - 1)>> \o ReSplit(SubSeq(s, j, Len(s)))

\* the first PFT of `order` that is in `found`, "None" when there is none
FirstOf(order, found) ==
    LET hits == {i \in 1..Len(order) : order[i] \in found}
    IN  IF hits = {} THEN "None"
        ELSE order[CHOOSE i \in hits : \A j \in hits : i <= j]

\* as AssignPftPriority, without the exact match of the whole string
AssignPftPriorityTokensOnly(growth_form, search_terms) ==
    IF growth_form = NA \/ growth_form \in NonGrowthForms \/ IsFloat(growth_form)
    THEN "None"
    ELSE LET tokens == ReSplit(StripChars(StripChars(growth_form, {"\""}), {" "}))
             found  == {FirstOf(PriorityOrder,
                                {p \in DOMAIN search_terms : tokens[i] \in search_terms[p]}) :
                           i \in {k \in 1..Len(tokens) : tokens[k] # <<>>}} \ {"None"}
         IN  FirstOf(PriorityOrder, found)

\* assign_pft_priority(growth_form, search_terms); "None" stands for None
AssignPftPriority(growth_form, search_terms) ==
    IF growth_form = NA THEN "None"
    ELSE IF growth_form \in NonGrowthForms THEN "None"
    ELSE IF IsFloat(growth_form) THEN "None"
    ELSE LET \* for pft, terms in search_terms.items(): if growth_form in terms
             exact  == FirstOf(PriorityOrder,
                               {p \in DOMAIN search_terms : growth_form \in search_terms[p]})
             tokens == ReSplit(StripChars(StripChars(growth_form, {"\""}), {" "}))
             \* each token adds the first PFT whose terms hold it
             found  == {FirstOf(PriorityOrder,
                                {p \in DOMAIN search_terms : tokens[i] \in search_terms[p]}) :
                           i \in {k \in 1..Len(tokens) : tokens[k] # <<>>}} \ {"None"}
             \* term in growth_form and len(term) > 2
             sub    == {p \in DOMAIN search_terms :
                           \E term \in search_terms[p] :
                              Len(term) > 2 /\ Find(growth_form, term) # 0}
         IN  IF exact # "None" THEN exact
             ELSE IF found # {} THEN FirstOf(PriorityOrder, found)
             ELSE FirstOf(PriorityOrder, sub)

\* df["pft"] = df["X42"].apply(lambda x: assign_pft_priority(x, search_terms))
PAssign ==
    /\ pft.pc = "call"
    /\ pft' = [pft EXCEPT !.pc = "returned",
                          !.result = AssignPftPriority(pft.growth_form, SearchTerms)]
    /\ UNCHANGED <<matVars, waitVars, gbifVars, expVars, restVars, gm, scr, mw>>

---------------------------------------------------------------------------
(* vodca, soilgrids and modis main: from the export step to the waiter *)

Scripts == {"vodca", "soilgrids", "modis"}

\* the names a script imports from src.utils.gee_utils are defined there:
\* soilgrids/get_soilgrids_data.py imports export_image, gee_utils.py defines
\* _export_image only, so loading that script raises ImportError
ImportsResolve(script) == script # "soilgrids"

\* does main call download_when_complete with the tasks of its export step
EntersWaiter(script, dry_run, download) ==
    CASE script = "vodca"     -> ~dry_run
      [] script = "soilgrids" -> download /\ ~dry_run
      [] script = "modis"     -> TRUE

\* RECURSIVE helper: the number of bands of a collection
RECURSIVE BandCount(_)
BandCount(coll) == IF coll = <<>> THEN 0 ELSE Len(Head(coll)) + BandCount(Tail(coll))

\* the script is loaded and main runs up to its export step
SImport ==
    /\ scr.pc = "import"
    /\ IF ImportsResolve(scr.script)
       THEN /\ scr' = [scr EXCEPT !.pc = "export"]
            /\ ePc' = "construct"
            /\ UNCHANGED sExc
       ELSE /\ scr' = [scr EXCEPT !.pc = "raised"]
            /\ sExc' = "ImportError"
            /\ UNCHANGED ePc
    /\ UNCHANGED <<eColl, eFlatten, eDry, eTarget, eI, eJ, eTasks, eBucket, eEvents,
                   matVars, waitVars, gbifVars, vodVars, bktVars, thrVars, qErr,
                   gm, pft, mw>>

\* the export step raised: main ends with the exception
SExportRaised ==
    /\ scr.pc = "export"
    /\ ePc = "raised"
    /\ scr' = [scr EXCEPT !.pc = "raised"]
    /\ UNCHANGED <<matVars, waitVars, gbifVars, expVars, restVars, gm, pft, mw>>

\* the export step returned its tasks: main hands them to
\* download_when_complete or ends
SHandOver ==
    /\ scr.pc = "export"
    /\ ePc = "returned"
    /\ IF EntersWaiter(scr.script, eDry, scr.download)
       THEN /\ scr' = [scr EXCEPT !.pc = "waiting"]
            /\ pc' = "loop"
            /\ tasks' = [i \in 1..Len(eTasks) |-> i]
            /\ desc' = [t \in Tasks |-> IF t <= Len(eTasks) THEN eTasks[t].description ELSE sA]
       ELSE /\ scr' = [scr EXCEPT !.pc = "done"]
            /\ UNCHANGED <<pc, tasks, desc>>
    /\ UNCHANGED <<snapshot, idx, lastState, attempts, log,
                   matVars, gbifVars, expVars, restVars, gm, pft, mw>>

\* download_when_complete returned
SWaiterReturned ==
    /\ scr.pc = "waiting"
    /\ pc = "done"
    /\ scr' = [scr EXCEPT !.pc = "done"]
    /\ UNCHANGED <<matVars, waitVars, gbifVars, expVars, restVars, gm, pft, mw>>

\* task.status()["state"] of the task the waiter is at: a task that was never
\* started reports UNSUBMITTED, a started one any state of the platform
StatesOf(task) ==
    IF eTasks[task].started THEN TaskStates ELSE {"UNSUBMITTED"}

---------------------------------------------------------------------------
(* modis/get_data.py: main, the waiter that script carries itself *)

\* as ModisHandleStatus, a failed task staying in the list
ModisHandleStatusKeepFailed(m, task, state) ==
    IF state = "COMPLETED"
    THEN LET file_name == desc[task] \o TIF
         IN  [m EXCEPT !.local = IF BlobExists(file_name) THEN @ \cup {file_name} ELSE @,
                       !.tasks = RemoveFirst(@, task)]
    ELSE m

\* the body of the for loop of modis/get_data.py main for one task whose
\* status() returned `state`; m.local is the set of files in out_dir.
\* COMPLETED: the blob <description>.tif is downloaded if it exists and the
\* local file does not; the task is removed. FAILED: the task is removed.
ModisHandleStatus(m, task, state) ==
    IF state = "COMPLETED"
    THEN LET file_name == desc[task] \o TIF
         IN  [m EXCEPT !.local = IF BlobExists(file_name) /\ file_name \notin @
                                 THEN @ \cup {file_name} ELSE @,
                       !.tasks = RemoveFirst(@, task)]
    ELSE IF state = "FAILED"
    THEN [m EXCEPT !.tasks = RemoveFirst(@, task)]
    ELSE m

\* the two waiters run side by side on the same jobs: download_when_complete
\* takes a step, then main of modis/get_data.py takes its own next step, its
\* status query returning what the platform just reported for that task.
\* mw.seen is where download_when_complete was when modis last moved.
Synced == mw.seen = <<pc, idx>>

\* while tasks: for task in tasks.copy():
MBeginPass ==
    /\ ~Synced
    /\ mw.pc = "loop"
    /\ mw.tasks # <<>>
    /\ mw' = [mw EXCEPT !.pc = "pass", !.snapshot = mw.tasks, !.idx = 1,
                        !.seen = <<pc, idx>>]
    /\ UNCHANGED <<matVars, waitVars, gbifVars, expVars, restVars, gm, pft, scr>>

\* status = task.status() and the branches on status["state"]
MPoll ==
    /\ ~Synced
    /\ mw.pc = "pass"
    /\ mw.idx <= Len(mw.snapshot)
    /\ LET task == mw.snapshot[mw.idx]
           m    == ModisHandleStatus(mw, task, lastState[task])
       IN  mw' = [m EXCEPT !.idx = @ + 1, !.seen = <<pc, idx>>]
    /\ UNCHANGED <<matVars, waitVars, gbifVars, expVars, restVars, gm, pft, scr>>

\* the pass is over: time.sleep(60), whether or not tasks are left
MEndPass ==
    /\ ~Synced
    /\ mw.pc = "pass"
    /\ mw.idx > Len(mw.snapshot)
    /\ mw' = [mw EXCEPT !.pc = "loop", !.sleptEmpty = @ \/ mw.tasks = <<>>,
                        !.seen = <<pc, idx>>]
    /\ UNCHANGED <<matVars, waitVars, gbifVars, expVars, restVars, gm, pft, scr>>

\* while tasks: the list is empty, main returns
MFinish ==
    /\ ~Synced
    /\ mw.pc = "loop"
    /\ mw.tasks = <<>>
    /\ mw' = [mw EXCEPT !.pc = "done", !.seen = <<pc, idx>>]
    /\ UNCHANGED <<matVars, waitVars, gbifVars, expVars, restVars, gm, pft, scr>>

---------------------------------------------------------------------------
(* Specifications *)

\* nothing is running in a part of the program
MatIdle ==
    /\ remote = [b \in BlobNames |-> 0]
    /\ local = [n \in LocalNames |-> Absent]
    /\ ops = <<>>
    /\ transfers = 0
    /\ calls = 0
    /\ lastCall = [stem |-> <<>>, overwrite |-> FALSE]

WaitIdle ==
    /\ pc = "idle"
    /\ tasks = <<>>
    /\ snapshot = <<>>
    /\ idx = 1
    /\ desc = [t \in Tasks |-> sA]
    /\ lastState = [t \in Tasks |-> "NONE"]
    /\ attempts = <<>>
    /\ log = <<>>

GbifIdle ==
    /\ gPc = "idle"
    /\ gElapsed = 0
    /\ gMaxHours = 0
    /\ gQueries = 0
    /\ gStatus = "NONE"
    /\ gOutKind = "dir"
    /\ gName = <<>>
    /\ gFiles = {}
    /\ gDownloads = 0
    /\ gExc = NoExc

ExpIdle ==
    /\ ePc = "idle"
    /\ eColl = <<>>
    /\ eFlatten = FALSE
    /\ eDry = FALSE
    /\ eTarget = "gcs"
    /\ eI = 1
    /\ eJ = 1
    /\ eTasks = <<>>
    /\ eBucket = "exists"
    /\ eEvents = <<>>

VodIdle ==
    /\ vPc = "idle"
    /\ vDry = FALSE
    /\ vDir = [n \in VNames |-> {}]
    /\ vDir0 = [n \in VNames |-> {}]
    /\ vPrefixes = <<>>
    /\ vMerges = <<>>

BktIdle ==
    /\ bPc = "idle"
    /\ bDir = TRUE
    /\ bQueue = <<>>

ThrIdle ==
    /\ tJobs = [w \in Workers |-> [url |-> <<"g", "/", "x">>, odir |-> <<"d">>]]
    /\ tPc = [w \in Workers |-> "idle"]
    /\ tDirs = {}
    /\ tFiles = [d \in Destinations |-> NoFile]

\* nothing of the parts below has run
GmIdle ==
    gm = [pc |-> "idle", script |-> "gbif", query_file |-> <<>>, query_exists |-> TRUE,
          key |-> <<>>, download_key |-> GKey, inits |-> 0, exc |-> "none"]

PftIdle == pft = [pc |-> "idle", growth_form |-> <<>>, result |-> "None"]

ScrIdle == scr = [pc |-> "idle", script |-> "vodca", download |-> FALSE]

MwIdle ==
    mw = [pc |-> "idle", tasks |-> <<>>, snapshot |-> <<>>, idx |-> 1, local |-> {},
          seen |-> <<"idle", 1>>, sleptEmpty |-> FALSE]

MoreIdle ==
    /\ GmIdle
    /\ PftIdle
    /\ ScrIdle
    /\ MwIdle

RestIdle ==
    /\ MoreIdle
    /\ sExc = "none"
    /\ VodIdle
    /\ BktIdle
    /\ ThrIdle
    /\ qErr = 0

\* a bucket and an output directory as a script may find them
StorageInit ==
    /\ remote \in [BlobNames -> {0, 1}]
    /\ local \in [LocalNames -> {Absent, Old}]
    /\ ops = <<>>
    /\ transfers = 0
    /\ calls = 0
    /\ lastCall = [stem |-> <<>>, overwrite |-> FALSE]

\* download_when_complete entered with a list of n distinct tasks
Init ==
    /\ RestIdle
    /\ StorageInit
    /\ pc = "loop"
    /\ \E n \in 0..MaxTasks :
          /\ tasks = [i \in 1..n |-> i]
          /\ desc \in [Tasks -> FileStems]
          /\ \A t \in Tasks : t > n => desc[t] = sA
    /\ snapshot = <<>>
    /\ idx = 1
    /\ lastState = [t \in Tasks |-> "NONE"]
    /\ attempts = <<>>
    /\ log = <<>>
    /\ GbifIdle
    /\ ExpIdle

Next ==
    \/ BeginPass
    \/ \E state \in TaskStates : PollTask(state)
    \/ EndPassSleep
    \/ EndPassNoSleep
    \/ Finish

Spec == Init /\ [][Next]_vars

\* the waiter keeps running: no step of it waits on anything but time.sleep
FairSpec == Spec /\ WF_vars(Next)

\* direct calls of download_blob_if_exists
InitMat ==
    /\ RestIdle
    /\ StorageInit
    /\ WaitIdle
    /\ GbifIdle
    /\ ExpIdle

NextMat ==
    \/ \E stem \in FileStems, overwrite \in BOOLEAN : CallDownloadBlobIfExists(stem, overwrite)
    \/ \E b \in BlobNames : RemoteChange(b)

SpecMat == InitMat /\ [][NextMat]_vars

\* check_download_job_and_download_file entered: start_time = time.time()
InitGbif ==
    /\ RestIdle
    /\ MatIdle
    /\ WaitIdle
    /\ ExpIdle
    /\ gPc = "polling"
    /\ gElapsed = 0
    /\ gMaxHours \in 0..MaxHours
    /\ gQueries = 0
    /\ gStatus = "NONE"
    /\ gOutKind \in {"dir", "file", "absent"}
    /\ gName \in {<<>>, <<"tracheophyta">>}
    /\ gFiles \in IF gOutKind = "dir" THEN {{}, {<<GKey, "zip">>}} ELSE {{}}
    /\ gDownloads = 0
    /\ gExc = NoExc

NextGbif ==
    \E status \in GbifStatuses, latency \in Latencies : GbifIterate(status, latency)

SpecGbif == InitGbif /\ [][NextGbif]_vars

\* export_collection entered
InitExp ==
    /\ RestIdle
    /\ MatIdle
    /\ WaitIdle
    /\ GbifIdle
    /\ ePc = "validate"
    /\ eColl \in Collections
    /\ eFlatten \in BOOLEAN
    /\ eDry \in BOOLEAN
    /\ eTarget \in {"gcs", "gdrive"}
    /\ eI = 1
    /\ eJ = 1
    /\ eTasks = <<>>
    /\ eBucket \in {"absent", "exists", "forbidden"}
    /\ eEvents = <<>>

NextExp ==
    \/ EValidate
    \/ EExport
    \/ EReturn

SpecExp == InitExp /\ [][NextExp]_vars

\* a script builds its ExportParams and exports a collection or one image
InitScripts ==
    /\ MoreIdle
    /\ MatIdle
    /\ WaitIdle
    /\ GbifIdle
    /\ VodIdle
    /\ BktIdle
    /\ ThrIdle
    /\ qErr = 0
    /\ sExc = "none"
    /\ ePc = "construct"
    /\ eColl \in Collections
    /\ eFlatten \in BOOLEAN
    /\ eDry \in BOOLEAN
    /\ eTarget \in Targets
    /\ eI = 1
    /\ eJ = 1
    /\ eTasks = <<>>
    /\ eBucket \in {"absent", "exists", "forbidden"}
    /\ eEvents = <<>>

NextScripts ==
    \/ EConstruct
    \/ ECallExportCollection
    \/ EsaExportImage
    \/ EValidate
    \/ EExport
    \/ EReturn

SpecScripts == InitScripts /\ [][NextScripts]_vars

\* vodca main reaches its merge phase with some files in out_dir
InitVod ==
    /\ MoreIdle
    /\ MatIdle
    /\ WaitIdle
    /\ GbifIdle
    /\ ExpIdle
    /\ BktIdle
    /\ ThrIdle
    /\ qErr = 0
    /\ sExc = "none"
    /\ vPc = "check"
    /\ vDry \in BOOLEAN
    /\ \E present \in SUBSET VNames :
          vDir = [n \in VNames |-> IF n \in present THEN {n} ELSE {}]
    /\ vDir0 = vDir
    /\ vPrefixes = <<>>
    /\ vMerges = <<>>

NextVod ==
    \/ VCheck
    \/ VMerge
    \/ VReturn

SpecVod == InitVod /\ [][NextVod]_vars

\* download_bucket entered; local_path may not exist, and then holds no file
InitBkt ==
    /\ MoreIdle
    /\ WaitIdle
    /\ GbifIdle
    /\ ExpIdle
    /\ VodIdle
    /\ ThrIdle
    /\ qErr = 0
    /\ sExc = "none"
    /\ remote \in [BlobNames -> {0, 1}]
    /\ bDir \in BOOLEAN
    /\ local \in [LocalNames -> {Absent, Old}]
    /\ ~bDir => local = [n \in LocalNames |-> Absent]
    /\ ops = <<>>
    /\ transfers = 0
    /\ calls = 0
    /\ lastCall = [stem |-> <<>>, overwrite |-> FALSE]
    /\ bPc = "start"
    /\ bQueue = <<>>

NextBkt ==
    \/ BList
    \/ BDownload
    \/ BReturn

SpecBkt == InitBkt /\ [][NextBkt]_vars

\* download_files entered: executor.map hands one download_file call to each worker
InitThr ==
    /\ MoreIdle
    /\ MatIdle
    /\ WaitIdle
    /\ GbifIdle
    /\ ExpIdle
    /\ VodIdle
    /\ BktIdle
    /\ qErr = 0
    /\ sExc = "none"
    /\ tJobs \in [Workers -> [url : Urls, odir : ODirs]]
    /\ tPc = [w \in Workers |-> "mkdir"]
    /\ tDirs \in SUBSET ODirs
    /\ tFiles = [d \in Destinations |-> NoFile]

NextThr ==
    \E w \in Workers : TMkdir(w) \/ TOpen(w) \/ TGet(w) \/ TWrite(w) \/ TClose(w)

SpecThr == InitThr /\ [][NextThr]_vars

\* download_when_complete entered with an output directory that holds no file yet
InitFresh ==
    /\ Init
    /\ local = [n \in LocalNames |-> Absent]

\* the waiter keeps running, as in FairSpec
FairSpecFresh == InitFresh /\ [][Next]_vars /\ WF_vars(Next)

\* either waiter, with status queries that may raise
InitFault ==
    \/ InitFresh
    \/ InitGbif

NextFault ==
    \/ Next
    \/ NextGbif
    \/ PollRaises
    \/ GbifQueryRaises

SpecFault == InitFault /\ [][NextFault]_vars

\* one of the two GBIF scripts is invoked from the command line; max_hours
\* keeps its default, cut down to MaxHours
InitGbifMain ==
    /\ MatIdle
    /\ WaitIdle
    /\ ExpIdle
    /\ sExc = "none"
    /\ VodIdle
    /\ BktIdle
    /\ ThrIdle
    /\ qErr = 0
    /\ PftIdle
    /\ ScrIdle
    /\ MwIdle
    /\ gm \in [pc : {"invoked"}, script : {"gbif", "data"}, query_file : QueryFiles,
               query_exists : BOOLEAN, key : KeyArgs, download_key : {""},
               inits : {0}, exc : {"none"}]
    /\ gPc = "idle"
    /\ gElapsed = 0
    /\ gMaxHours = MaxHours
    /\ gQueries = 0
    /\ gStatus = "NONE"
    /\ gOutKind \in {"dir", "file", "absent"}
    /\ gName \in {<<>>, <<"tracheophyta">>}
    /\ gFiles = {}
    /\ gDownloads = 0
    /\ gExc = NoExc

NextGbifMain ==
    \/ GMainClick
    \/ GMainValidate
    \/ GMainLoad
    \/ GMainKey
    \/ \E status \in GbifStatuses, latency \in Latencies : GbifIterate(status, latency)
    \/ GMainRaised
    \/ GMainReturned

SpecGbifMain == InitGbifMain /\ [][NextGbifMain]_vars

\* assign_pft_priority is applied to one value of column X42
InitPft ==
    /\ MatIdle
    /\ WaitIdle
    /\ GbifIdle
    /\ ExpIdle
    /\ sExc = "none"
    /\ VodIdle
    /\ BktIdle
    /\ ThrIdle
    /\ qErr = 0
    /\ GmIdle
    /\ ScrIdle
    /\ MwIdle
    /\ pft \in [pc : {"call"}, growth_form : GrowthForms, result : {"None"}]

NextPft == PAssign

SpecPft == InitPft /\ [][NextPft]_vars

\* vodca, soilgrids or modis is run from the command line: --dry-run/--test is
\* eDry, --download is scr.download; both export with flatten=True
InitMain ==
    /\ WaitIdle
    /\ GbifIdle
    /\ sExc = "none"
    /\ VodIdle
    /\ BktIdle
    /\ ThrIdle
    /\ qErr = 0
    /\ GmIdle
    /\ PftIdle
    /\ MwIdle
    /\ remote = [b \in BlobNames |-> 1]
    /\ local = [n \in LocalNames |-> Absent]
    /\ ops = <<>>
    /\ transfers = 0
    /\ calls = 0
    /\ lastCall = [stem |-> <<>>, overwrite |-> FALSE]
    /\ scr \in [pc : {"import"}, script : Scripts, download : BOOLEAN]
    /\ ePc = "idle"
    /\ eColl \in {c \in Collections : BandCount(c) <= MaxTasks}
    /\ eFlatten = TRUE
    /\ eDry \in BOOLEAN
    /\ eTarget \in Targets
    /\ eI = 1
    /\ eJ = 1
    /\ eTasks = <<>>
    /\ eBucket \in {"absent", "exists", "forbidden"}
    /\ eEvents = <<>>

NextMain ==
    \/ SImport
    \/ EConstruct
    \/ ECallExportCollection
    \/ EValidate
    \/ EExport
    \/ EReturn
    \/ SExportRaised
    \/ SHandOver
    \/ BeginPass
    \/ \E state \in TaskStates \cup {"UNSUBMITTED"} :
          /\ pc = "pass"
          /\ idx <= Len(snapshot)
          /\ state \in StatesOf(snapshot[idx])
          /\ PollTask(state)
    \/ EndPassSleep
    \/ EndPassNoSleep
    \/ Finish
    \/ SWaiterReturned

SpecMain == InitMain /\ [][NextMain]_vars

\* download_when_complete with downloads that may raise; the output directory
\* may hold files of an earlier run
NextDlFault ==
    \/ Next
    \/ PollTaskDownloadRaises

SpecDlFault == Init /\ [][NextDlFault]_vars

\* both waiters are entered with the same task list, an empty output
\* directory each
InitPair ==
    /\ sExc = "none"
    /\ VodIdle
    /\ BktIdle
    /\ ThrIdle
    /\ qErr = 0
    /\ GmIdle
    /\ PftIdle
    /\ ScrIdle
    /\ GbifIdle
    /\ ExpIdle
    /\ StorageInit
    /\ local = [n \in LocalNames |-> Absent]
    /\ pc = "loop"
    /\ \E n \in 0..MaxTasks :
          /\ tasks = [i \in 1..n |-> i]
          /\ desc \in [Tasks -> FileStems]
          /\ \A t \in Tasks : t > n => desc[t] = sA
    /\ snapshot = <<>>
    /\ idx = 1
    /\ lastState = [t \in Tasks |-> "NONE"]
    /\ attempts = <<>>
    /\ log = <<>>
    /\ mw = [pc |-> "loop", tasks |-> tasks, snapshot |-> <<>>, idx |-> 1, local |-> {},
             seen |-> <<"loop", 1>>, sleptEmpty |-> FALSE]

NextPair ==
    \/ Synced /\ BeginPass
    \/ Synced /\ \E state \in TaskStates : PollTask(state)
    \/ Synced /\ EndPassSleep
    \/ Synced /\ EndPassNoSleep
    \/ Synced /\ Finish
    \/ MBeginPass
    \/ MPoll
    \/ MEndPass
    \/ MFinish

SpecPair == InitPair /\ [][NextPair]_vars

---------------------------------------------------------------------------
(* Properties *)

\* the download_blob_if_exists calls the waiter made for task t
AttemptsOf(t) == SelectSeq(attempts, LAMBDA a : a[1] = t)

\* this step is the loop body run for task t, whose status() returned state
Polled(t, state) ==
    /\ pc = "pass"
    /\ idx <= Len(snapshot)
    /\ snapshot[idx] = t
    /\ idx' = idx + 1
    /\ lastState'[t] = state

\* the blobs fetched by the call recorded in o, in order
Downloads(o) ==
    LET gets == SelectSeq(o, LAMBDA e : e[1] = "download_to_filename")
    IN  [i \in 1..Len(gets) |-> gets[i][2]]

HasOp(o, op) == \E i \in 1..Len(o) : o[i][1] = op

\* this step is a direct call download_blob_if_exists(stem, ..., overwrite)
Called(stem, overwrite) ==
    /\ calls' = calls + 1
    /\ lastCall' = [stem |-> stem, overwrite |-> overwrite]

\* C1: a task whose status() returned FAILED has no download attempt, is named
\* by a log.error line and is off the task list; the step that handles it
\* removes that task alone and the pass goes on with the next task.
C1_FailedReportedNeverDownloaded ==
    /\ [](\A t \in Tasks : lastState[t] = "FAILED" =>
             /\ AttemptsOf(t) = <<>>
             /\ t \in Range(log)
             /\ t \notin Range(tasks)
             /\ pc # "raised")
    /\ [][\A t \in Tasks : Polled(t, "FAILED") =>
             /\ tasks' = RemoveFirst(tasks, t)
             /\ transfers' = transfers
             /\ local' = local
             /\ snapshot' = snapshot
             /\ pc' = "pass"]_vars

\* C1 witness: task 1 failed, and task 2 was polled and downloaded after it
C1_Witness ==
    /\ MaxTasks >= 2
    /\ lastState[1] = "FAILED"
    /\ lastState[2] = "COMPLETED"
    /\ Len(attempts) = 1
    /\ log = <<1>>

\* C2: a task whose status() returned COMPLETED has exactly one download
\* attempt, made with its description; it is off the task list and off the rest
\* of the running pass, and nothing is polled or fetched for it afterwards.
C2_CompletedDownloadedOnce ==
    /\ [](\A t \in Tasks :
             /\ Len(AttemptsOf(t)) <= 1
             /\ lastState[t] = "COMPLETED" =>
                   /\ AttemptsOf(t) = <<(<<t, desc[t]>>)>>
                   /\ t \notin Range(tasks)
                   /\ \A i \in idx..Len(snapshot) : pc = "pass" => snapshot[i] # t)
    /\ [][\A t \in Tasks : lastState[t] = "COMPLETED" =>
             /\ lastState'[t] = "COMPLETED"
             /\ AttemptsOf(t)' = AttemptsOf(t)]_vars

\* C2 witness: two tasks with the same description, both downloaded, the waiter done
C2_Witness ==
    /\ MaxTasks >= 2
    /\ pc = "done"
    /\ lastState[1] = "COMPLETED"
    /\ lastState[2] = "COMPLETED"
    /\ desc[1] = desc[2]
    /\ Len(attempts) = 2

\* C3 (as claimed): a run that ends without a terminal status ended by the
\* timeout: GbifDownloadFailure is raised, more than max_hours after the start,
\* and no archive of the job is left at or under output_path.
C3_TimeoutRaisesFailureAndDeletes ==
    (gPc = "raised" /\ gStatus \notin {"SUCCEEDED", "FAILED"}) =>
        /\ gExc.type = "GbifDownloadFailure"
        /\ gElapsed > gMaxHours * SecondsPerHour
        /\ gOutKind # "file"
        /\ <<GKey, "zip">> \notin gFiles

\* C4 (as claimed): download_when_complete always comes to an end.
C4_WaiterTerminates == <>(pc \in {"done", "raised"})

\* C5: once a status query returns FAILED the run has raised
\* GbifDownloadFailure("Download job <key> failed."), nothing was downloaded or
\* written by that iteration, and no status query follows.
C5_FailedRaisesAtOnce ==
    /\ [](gStatus = "FAILED" =>
             /\ gPc = "raised"
             /\ gExc.type = "GbifDownloadFailure"
             /\ GKey \in Range(gExc.msg)
             /\ " failed." \in Range(gExc.msg)
             /\ gDownloads = 0)
    /\ [][gStatus' = "FAILED" =>
             /\ gQueries' = gQueries + 1
             /\ gFiles' = gFiles
             /\ gOutKind' = gOutKind]_vars
    /\ [][gStatus = "FAILED" => gQueries' = gQueries]_vars

\* C5 witness: FAILED came after earlier, pending polls
C5_Witness ==
    /\ gStatus = "FAILED"
    /\ gPc = "raised"
    /\ gQueries = 3

\* no object of the bucket is named stem.tif or starts with stem
OutputAbsent(stem) ==
    \A b \in BlobNames : remote[b] > 0 => (b # stem \o TIF /\ ~StartsWith(b, stem))

\* C6: when a task completes and the bucket holds neither <description>.tif nor
\* an object starting with the description, the call ends with the error line,
\* fetches and writes nothing, raises nothing, and the task leaves the list.
C6_AbsentOutputIsNotFatal ==
    [][\A t \in Tasks : (Polled(t, "COMPLETED") /\ OutputAbsent(desc[t])) =>
          /\ ops' = << Ev("blob.exists", desc[t] \o TIF),
                       Ev("warning:not_found", desc[t] \o TIF),
                       Ev("list_blobs", desc[t]),
                       Ev("error:not_found", desc[t] \o TIF) >>
          /\ transfers' = transfers
          /\ local' = local
          /\ pc' = "pass"
          /\ tasks' = RemoveFirst(tasks, t)]_vars

\* C6 witness: a completed task's output was not found and the waiter went on to the end
C6_Witness ==
    /\ pc = "done"
    /\ transfers = 0
    /\ HasOp(ops, "error:not_found")
    /\ \E t \in Tasks : lastState[t] = "COMPLETED"

\* the objects whose names start with stem, as list_blobs orders them
PartsOf(stem) == SelectSeq(BlobOrder, LAMBDA b : remote[b] > 0 /\ StartsWith(b, stem))

\* C7: a call first looks up <file_stem>.tif; it lists the objects starting with
\* file_stem exactly when that object does not exist, and then fetches every
\* listed object, in order, once each, and not the exact-name object.
C7_ExactNameThenParts ==
    [][\A stem \in FileStems, overwrite \in BOOLEAN : Called(stem, overwrite) =>
          /\ ops'[1] = Ev("blob.exists", stem \o TIF)
          /\ HasOp(ops', "list_blobs") <=> ~BlobExists(stem \o TIF)
          /\ ~BlobExists(stem \o TIF) =>
                /\ ops'[3] = Ev("list_blobs", stem)
                /\ Downloads(ops') = PartsOf(stem)
                /\ stem \o TIF \notin Range(Downloads(ops'))]_vars

\* C7 witness: the exact object was missing and two listed parts were fetched
C7_Witness ==
    /\ calls >= 1
    /\ lastCall.stem = sA
    /\ HasOp(ops, "list_blobs")
    /\ Len(Downloads(ops)) = 2

\* C8: when <file_stem>.tif exists in the bucket it is fetched exactly when the
\* local file is absent or overwrite is true; an overwrite warns, unlinks, then
\* fetches; with overwrite false and the file present nothing is fetched and
\* the directory is left as it was.
C8_OverwritePolicy ==
    [][\A stem \in FileStems, overwrite \in BOOLEAN :
          (Called(stem, overwrite) /\ BlobExists(stem \o TIF)) =>
             LET fn == stem \o TIF
                 present == local[fn].present
             IN  /\ Downloads(ops') = IF ~present \/ overwrite THEN <<fn>> ELSE <<>>
                 /\ transfers' = transfers + Len(Downloads(ops'))
                 /\ (present /\ overwrite) =>
                       /\ ops' = << Ev("blob.exists", fn), Ev("info:downloading", fn),
                                    Ev("warning:overwriting", fn), Ev("unlink", fn),
                                    Ev("download_to_filename", fn) >>
                       /\ local' = [local EXCEPT ![fn] = Fetched(fn)]
                 /\ ~present =>
                       /\ ~HasOp(ops', "unlink")
                       /\ ~HasOp(ops', "warning:overwriting")
                       /\ local' = [local EXCEPT ![fn] = Fetched(fn)]
                 /\ (present /\ ~overwrite) =>
                       /\ HasOp(ops', "info:skipping")
                       /\ local' = local]_vars

\* C8 witness: a call with overwrite true replaced an existing local file
C8_Witness ==
    /\ calls >= 1
    /\ lastCall.overwrite
    /\ HasOp(ops, "unlink")
    /\ local[lastCall.stem \o TIF] = Fetched(lastCall.stem \o TIF)

\* file <stem>.tif is what an earlier call fetched and the object has not changed since
Materialized(stem) ==
    /\ BlobExists(stem \o TIF)
    /\ local[stem \o TIF] = Fetched(stem \o TIF)

\* C9: a call with overwrite false for an exact-name object that an earlier
\* call fetched and that has not changed leaves the directory as it is and
\* makes no transfer.
C9_SecondCallIsNoOp ==
    [][\A stem \in FileStems : (Called(stem, FALSE) /\ Materialized(stem)) =>
          /\ local' = local
          /\ transfers' = transfers
          /\ Downloads(ops') = <<>>]_vars

\* C9 witness: the second of two calls for the same object skipped the download
C9_Witness ==
    /\ calls = 2
    /\ ~lastCall.overwrite
    /\ Materialized(lastCall.stem)
    /\ transfers = 1
    /\ HasOp(ops, "info:skipping")

\* the band names of all images of a collection, in order
RECURSIVE AllBands(_)
AllBands(coll) == IF coll = <<>> THEN <<>> ELSE Head(coll) \o AllBands(Tail(coll))

\* C10: export_collection returns, with flatten, one task per band of every
\* image, described and prefixed by the band name; without flatten, one task
\* per image, described and prefixed by the image's first band.
C10_OneTaskPerBandOrImage ==
    ePc = "returned" =>
        LET names == IF eFlatten THEN AllBands(eColl)
                     ELSE [i \in 1..Len(eColl) |-> eColl[i][1]]
        IN  /\ Len(eTasks) = Len(names)
            /\ \A k \in 1..Len(names) :
                  /\ eTasks[k].description = names[k]
                  /\ eTasks[k].fileNamePrefix = names[k]
                  /\ eFlatten => eTasks[k].bands = <<names[k]>>
                  /\ ~eFlatten => eTasks[k].bands = eColl[k]

\* C10 witness: one image with bands a, b exported with flatten gave two tasks
C10_Witness ==
    /\ ePc = "returned"
    /\ eFlatten
    /\ eColl = << <<sA, sB>> >>
    /\ Len(eTasks) = 2
    /\ eTasks[1].description = sA
    /\ eTasks[2].description = sB

\* the loops of export_collection run to their end from e
RECURSIVE ExportAll(_, _, _, _)
ExportAll(e, flatten, target, dry_run) ==
    IF e.i > Len(e.coll) THEN e
    ELSE ExportAll(ExportStep(e, flatten, target, dry_run), flatten, target, dry_run)

\* C11: with dry_run true, export_collection starts no task, neither looks up
\* nor creates a bucket and raises nothing, and the list it returns has the
\* tasks of the run without dry_run (as many, with the same description,
\* prefix, bands and destination kind), none of them started.
C11_DryRunSubmitsNothing ==
    eDry =>
        /\ eEvents = <<>>
        /\ eBucket # "created"
        /\ ePc # "raised"
        /\ \A k \in 1..Len(eTasks) : ~eTasks[k].started
        /\ ePc = "returned" =>
              LET run == ExportAll([coll |-> eColl, i |-> 1, j |-> 1, tasks |-> <<>>,
                                    events |-> <<>>], eFlatten, eTarget, FALSE).tasks
              IN  /\ Len(eTasks) = Len(run)
                  /\ \A k \in 1..Len(run) :
                        /\ run[k].started
                        /\ eTasks[k] = [run[k] EXCEPT !.started = FALSE]

\* C11 witness: a dry run towards a bucket that does not exist returned two tasks
C11_Witness ==
    /\ ePc = "returned"
    /\ eDry
    /\ eTarget = "gcs"
    /\ eBucket = "absent"
    /\ Len(eTasks) = 2
    /\ eEvents = <<>>

\* the position of the first call op among the events, 0 when there is none
FirstOp(events, op) ==
    LET hits == {i \in 1..Len(events) : events[i][1] = op}
    IN  IF hits = {} THEN 0 ELSE CHOOSE i \in hits : \A j \in hits : i <= j

\* C12: once a task towards object storage has been started, the bucket exists:
\* it was there, or it was created, private and in europe-west1, before the
\* first start; after a lookup that was refused no task has been started.
C12_BucketReadyBeforeFirstStart ==
    /\ (eTarget = "gcs" /\ HasOp(eEvents, "start")) =>
          /\ eBucket \in {"exists", "created"}
          /\ eBucket = "created" =>
                /\ FirstOp(eEvents, "create_bucket") # 0
                /\ FirstOp(eEvents, "create_bucket") < FirstOp(eEvents, "start")
                /\ eEvents[FirstOp(eEvents, "create_bucket")] =
                      Ev("create_bucket", <<"europe-west1", "private">>)
    /\ (ePc = "raised" /\ sExc = "none") =>
          /\ eBucket = "forbidden"
          /\ ~HasOp(eEvents, "start")
          /\ eTasks = <<>>

\* C13: a target other than "gcs" and "gdrive" makes the construction of
\* ExportParams raise ValueError, with no task built and no call made before
\* or after; every task that is built goes to the destination its target names.
C13_UnknownTargetRaisesAtConstruction ==
    /\ eTarget \notin {"gcs", "gdrive"} =>
          /\ ePc \in {"construct", "raised"}
          /\ ePc = "raised" => sExc = "ValueError"
          /\ eTasks = <<>>
          /\ eEvents = <<>>
    /\ sExc = "ValueError" => (ePc = "raised" /\ eTarget \notin {"gcs", "gdrive"})
    /\ \A k \in 1..Len(eTasks) :
          \/ eTarget = "gcs" /\ eTasks[k].dest = "toCloudStorage"
          \/ eTarget = "gdrive" /\ eTasks[k].dest = "toDrive"

\* C13 witness: building ExportParams with target "s3" raised ValueError
C13_Witness ==
    /\ eTarget = "s3"
    /\ ePc = "raised"
    /\ sExc = "ValueError"
    /\ eTasks = <<>>

\* the files of dir that check_multipart_files takes for the parts of prefix
Group(dir, prefix) ==
    {n \in GlobContains(dir, Zeros) : SplitZerosHead(PathStem(n)) = prefix}

\* dir holds the group of prefix and nothing that could be taken for it: no
\* other file starts with prefix, and no part of it starts with another
\* detected prefix
HoldsGroupAlone(dir, prefix) ==
    /\ Group(dir, prefix) # {}
    /\ GlobPrefix(dir, prefix) = Group(dir, prefix)
    /\ \A q \in CheckMultipartFiles(dir) \ {prefix} :
          \A n \in Group(dir, prefix) : ~StartsWith(n, q)

\* C14: for a directory that holds the parts of group P (and no other file
\* starting with P), the merge phase ends without an exception, and at its end
\* P.tif holds the content of exactly those parts, merged by one
\* merge_rasters call, and none of the parts is left.
C14_MultipartRoundTrip ==
    \A prefix \in {pV, pVQ} :
        (~vDry /\ HoldsGroupAlone(vDir0, prefix)) =>
            /\ vPc # "raised"
            /\ vPc = "done" =>
                  /\ vDir[prefix \o TIF] = Group(vDir0, prefix)
                  /\ \A n \in Group(vDir0, prefix) : vDir[n] = {}
                  /\ \E k \in 1..Len(vMerges) :
                        /\ vMerges[k] = <<prefix, Group(vDir0, prefix)>>
                        /\ \A m \in 1..Len(vMerges) : vMerges[m][1] = prefix => m = k

\* C14 witness: parts v00000_1.tif and v00000_2.tif, next to an unrelated
\* w.tif, were merged into v.tif and removed
C14_Witness ==
    /\ vPc = "done"
    /\ VFiles(vDir0) = {VPart(pV, "1"), VPart(pV, "2"), <<"w">> \o TIF}
    /\ vDir[pV \o TIF] = {VPart(pV, "1"), VPart(pV, "2")}
    /\ VFiles(vDir) = {pV \o TIF, <<"w">> \o TIF}

\* C15: when no file name of out_dir contains "00000", or in a dry run, the
\* merge phase merges no raster and leaves out_dir as it found it; and every
\* prefix that is merged is one detected from a file name containing "00000".
C15_MergeOnlyOnDetectedGroup ==
    /\ (vDry \/ GlobContains(vDir0, Zeros) = {}) =>
          /\ vMerges = <<>>
          /\ vDir = vDir0
          /\ vPc \in {"idle", "check", "done"}
    /\ \A k \in 1..Len(vMerges) :
          /\ ~vDry
          /\ vMerges[k][1] \in CheckMultipartFiles(vDir0)
          /\ Group(vDir0, vMerges[k][1]) # {}

\* C15 witness: out_dir held v.tif and w.tif, no part; the phase ended with
\* both files as they were
C15_Witness ==
    /\ vPc = "done"
    /\ ~vDry
    /\ VFiles(vDir0) = {pV \o TIF, <<"w">> \o TIF}
    /\ vDir = vDir0
    /\ vMerges = <<>>

\* C16: whenever download_bucket has asked for a blob to be written into
\* local_path, local_path exists as a directory.
C16_DirectoryExistsBeforeWrite ==
    (bPc # "idle" /\ HasOp(ops, "download_to_filename")) => bDir

\* C17: no two workers have the same destination file open at once, and when
\* every worker is done each destination file holds the content of its
\* worker's url and nothing else.
C17_WorkersWriteDistinctFiles ==
    /\ \A v, w \in Workers :
          (v # w /\ FileOpen(v) /\ FileOpen(w)) =>
              Destination(tJobs[v]) # Destination(tJobs[w])
    /\ (\A w \in Workers : tPc[w] = "done") =>
          \A w \in Workers :
              tFiles[Destination(tJobs[w])] = [present |-> TRUE, data |-> {tJobs[w].url}]

\* C18: at most one status query raises; the waiter it was made by is left
\* with the exception at once; the step of the failing query and every later
\* step poll no task, make no download attempt and issue no query.
C18_QueryErrorIsNotRetried ==
    /\ [](/\ qErr <= 1
          /\ qErr = 1 => (pc = "raised" \/ gPc = "raised")
          /\ (qErr = 1 /\ gPc = "raised") => gExc.type = "ConnectionError")
    /\ [][qErr' # qErr =>
            /\ qErr = 0
            /\ lastState' = lastState
            /\ attempts' = attempts
            /\ transfers' = transfers
            /\ tasks' = tasks
            /\ gDownloads' = gDownloads
            /\ gFiles' = gFiles]_vars
    /\ [][qErr = 1 =>
            /\ lastState' = lastState
            /\ attempts' = attempts
            /\ transfers' = transfers
            /\ gQueries' = gQueries
            /\ gDownloads' = gDownloads]_vars

\* C18 witness: the second status query of download_when_complete raised after
\* the first had returned RUNNING; the waiter was left with one task polled
C18_Witness ==
    /\ qErr = 1
    /\ pc = "raised"
    /\ Len(tasks) = 2
    /\ lastState[1] = "RUNNING"
    /\ lastState[2] = "NONE"
    /\ attempts = <<>>

\* C19: when download_request_to_disk has returned, the directory holds
\* <key>.zip and <key>.json if no name was given; with a name (other than the
\* key) it holds <name>.zip and <name>.json and no <key>.zip, also where a
\* <key>.zip had been there before the call.
C19_ArchiveAndMetadataOnDisk ==
    gPc = "returned" =>
        /\ gDownloads = 1
        /\ IF gName = <<>>
           THEN {<<GKey, "zip">>, <<GKey, "json">>} \subseteq gFiles
           ELSE /\ {<<gName[1], "zip">>, <<gName[1], "json">>} \subseteq gFiles
                /\ <<GKey, "zip">> \notin gFiles

\* C19 witness: the call with name "tracheophyta" returned and left
\* tracheophyta.zip and tracheophyta.json
C19_Witness ==
    /\ gPc = "returned"
    /\ gName = <<"tracheophyta">>
    /\ gFiles = {<<"tracheophyta", "zip">>, <<"tracheophyta", "json">>}

\* the tasks whose last poll returned COMPLETED or FAILED
Handled == {t \in Tasks : lastState[t] \in {"COMPLETED", "FAILED"}}

\* how often task t is named by a log.error line
ErrorsOf(t) == Cardinality({i \in 1..Len(log) : log[i] = t})

\* C20: if every task of the list is at some later poll reported COMPLETED or
\* FAILED, download_when_complete returns; it returns with an empty list; a
\* task leaves the list only in the step that polled it as COMPLETED or
\* FAILED, and no task enters it; a task out of the list has had one download
\* attempt and no error line (COMPLETED) or one error line and no download
\* attempt (FAILED).
C20_TerminalJobsEndTheWait ==
    /\ (\A t \in Tasks :
           [](t \in Range(tasks) => <>(lastState[t] \in {"COMPLETED", "FAILED"})))
          => <>(pc = "done")
    /\ [](pc = "done" => tasks = <<>>)
    /\ [](\A t \in Handled \ Range(tasks) :
             IF lastState[t] = "COMPLETED"
             THEN Len(AttemptsOf(t)) = 1 /\ ErrorsOf(t) = 0
             ELSE Len(AttemptsOf(t)) = 0 /\ ErrorsOf(t) = 1)
    /\ [][/\ \A t \in Range(tasks) \ Range(tasks') :
               Polled(t, "COMPLETED") \/ Polled(t, "FAILED")
          /\ Range(tasks') \subseteq Range(tasks)
          /\ Range(tasks) \ Range(tasks') \subseteq Handled']_vars

\* C20 witness: two tasks, one polled COMPLETED and one FAILED, and the
\* waiter returned
C20_Witness ==
    /\ pc = "done"
    /\ tasks = <<>>
    /\ lastState[1] = "COMPLETED"
    /\ lastState[2] = "FAILED"
    /\ Len(attempts) = 1
    /\ log = <<2>>

\* the command line names a query file that is no .json file or an output
\* path that is no directory
ConfigError == PathSuffix(gm.query_file) # JSON \/ gOutKind # "dir"

\* nothing went over the network: no job initiated, no status polled, nothing
\* downloaded
NoNetworkActivity ==
    /\ gm.inits = 0
    /\ gPc = "idle"
    /\ gQueries = 0
    /\ gDownloads = 0

C22_KeyGivenNeverInitiates ==
    /\ gm.key # <<>> =>
          /\ gm.inits = 0
          /\ gPc # "idle" => gm.download_key = gm.key[1]
    /\ gm.key = <<>> =>
          /\ gm.inits = IF gPc = "idle" THEN 0 ELSE 1
          /\ gPc # "idle" => gm.download_key = NewKey
    /\ (gPc = "returned" /\ gm.pc = "check" /\ gName = <<>>) =>
          <<gm.download_key, "zip">> \in gFiles
    /\ gExc.type = "GbifDownloadFailure" => gExc.msg[2] = gm.download_key

C22_Witness ==
    /\ gm.key = <<GKey>>
    /\ gm.pc = "done"
    /\ gDownloads = 1
    /\ gQueries > 1
    /\ gm.inits = 0

\* the longest blob list download_blobs is tried on
MaxBlobs == 2

\* the download_blob calls recorded in o: download_blob logs the last path
\* component of the blob it is called with
DownloadBlobCalls(o) ==
    LET names == {PathName(b) : b \in BlobNames}
    IN  SelectSeq(o, LAMBDA e : e[1] = "info:downloading" /\ e[2] \in names)

\* C23: download_bucket hands every blob of the listing to download_blob, once
\* and in the order of the listing; download_blobs does the same with the list
\* it is given; download_blob writes its blob to <out_dir>/<last path
\* component> with one download_to_filename call and touches no other file.
C23_EveryBlobOnceInListOrder ==
    /\ bPc \in {"blobs", "done", "raised"} =>
          /\ Downloads(ops) \o bQueue = ListBlobs(<<>>)
          /\ Len(DownloadBlobCalls(ops)) = Len(Downloads(ops))
          /\ \A i \in 1..Len(Downloads(ops)) :
                DownloadBlobCalls(ops)[i][2] = PathName(Downloads(ops)[i])
    /\ (bPc = "done" /\ bDir) =>
          \A i \in 1..Len(Downloads(ops)) :
             LET b == Downloads(ops)[i]
             IN  \/ local[PathName(b)] = Fetched(b)
                 \/ \E j \in (i + 1)..Len(Downloads(ops)) :
                       PathName(Downloads(ops)[j]) = PathName(b)
    /\ \A b \in BlobNames :
          LET w == DownloadBlob(World, b)
          IN  /\ Downloads(w.ops) = <<b>>
              /\ w.transfers = transfers + 1
              /\ w.local[PathName(b)] = Fetched(b)
              /\ \A n \in LocalNames \ {PathName(b)} : w.local[n] = local[n]
    /\ \A blobs \in SeqsUpTo(BlobNames, MaxBlobs) :
          LET w == DownloadBlobs(World, blobs)
          IN  /\ Downloads(w.ops) = blobs
              /\ w.transfers = transfers + Len(blobs)

C23_Witness ==
    /\ bPc = "done"
    /\ bDir
    /\ Len(Downloads(ops)) = Len(BlobOrder)
    /\ Downloads(ops) = BlobOrder
    /\ local[sA \o TIF].src = <<"d", "/">> \o sA \o TIF

\* the growth form is dropped before any matching: a missing value, a
\* non-growth form or a number
FilteredOut(g) == g = NA \/ g \in NonGrowthForms \/ IsFloat(g)

\* the tokens of g: the maximal delimiter-free pieces of g without the quotes
\* and the whitespace around it
TokenSet(g) ==
    LET t == StripChars(StripChars(g, {"\""}), {" "})
    IN  {SubSeq(t, i, j) : <<i, j>> \in
            {ij \in (1..Len(t)) \X (1..Len(t)) :
                /\ ij[1] <= ij[2]
                /\ \A k \in ij[1]..ij[2] : t[k] \notin Delimiters
                /\ ij[1] = 1 \/ t[ij[1] - 1] \in Delimiters
                /\ ij[2] = Len(t) \/ t[ij[2] + 1] \in Delimiters}}

\* the PFTs whose search terms hold the whole string, resp. one of its tokens
ExactPfts(g) == {p \in DOMAIN SearchTerms : g \in SearchTerms[p]}
TokenPfts(g) == {p \in DOMAIN SearchTerms : TokenSet(g) \cap SearchTerms[p] # {}}

C25_DryRunJobsNeverReachTheWaiter ==
    (eDry /\ eTasks # <<>>) => pc = "idle"

\* C26: when merge_multipart_files has returned, every detected prefix P has
\* its merged file P.tif, each merge took the parts of P's own group only, and
\* nothing but merged parts was deleted -- also where P.tif was there before
\* the merge and where one prefix is the beginning of another.
C26_MergedFileOfOwnGroupOnly ==
    (vPc = "done" /\ vMerges # <<>>) =>
        /\ \A prefix \in CheckMultipartFiles(vDir0) : vDir[prefix \o TIF] # {}
        /\ \A k \in 1..Len(vMerges) :
              vMerges[k][2] = Group(vDir0, vMerges[k][1])
        /\ \A n \in VFiles(vDir0) \ VFiles(vDir) :
              \E prefix \in CheckMultipartFiles(vDir0) : n \in Group(vDir0, prefix)

\* C27: a call with overwrite false deletes and replaces no file that is
\* already in the output directory, neither for the exact-name object nor for
\* the parts of the fallback branch, and fetches no part that is already there.
C27_NoOverwriteKeepsLocalFiles ==
    [][\A stem \in FileStems : Called(stem, FALSE) =>
          /\ \A n \in LocalNames : local[n].present => local'[n] = local[n]
          /\ ~HasOp(ops', "unlink")
          /\ \A i \in 1..Len(Downloads(ops')) :
                ~local[PathName(Downloads(ops')[i])].present]_vars

\* the call recorded in o ended in a blob.download_to_filename that raised:
\* it is the last thing the call did and the file is not in directory l
LastDownloadFailed(o, l) ==
    /\ o # <<>>
    /\ o[Len(o)][1] = "download_to_filename"
    /\ l[PathName(o[Len(o)][2])] # Fetched(o[Len(o)][2])

\* C28: the waiter removes a job only in a step whose download attempt (if
\* any) returned; when the download raises, the waiter ends with the
\* exception, the job is still in the task list, and nothing more is polled
\* or downloaded.
C28_RaisingDownloadKeepsTheJob ==
    [][/\ pc # "raised"
       /\ (pc = "pass" /\ idx' = idx + 1) =>
             LET task   == snapshot[idx]
                 raised == /\ lastState'[task] = "COMPLETED"
                           /\ LastDownloadFailed(ops', local')
             IN  /\ raised => (pc' = "raised" /\ tasks' = tasks)
                 /\ pc' = "raised" => (raised /\ task \in Range(tasks'))
                 /\ tasks' # tasks =>
                       /\ tasks' = RemoveFirst(tasks, task)
                       /\ pc' = "pass"
                       /\ lastState'[task] \in {"COMPLETED", "FAILED"}]_vars

\* C28 witness: the download of the first of two jobs raised; both jobs are
\* still listed and the second was never polled
C28_Witness ==
    /\ pc = "raised"
    /\ tasks = <<1, 2>>
    /\ idx = 2
    /\ lastState[1] = "COMPLETED"
    /\ lastState[2] = "NONE"
    /\ LastDownloadFailed(ops, local)

\* C29: on the same job list and the same polled statuses the waiter of
\* modis/get_data.py is at every step where download_when_complete is: same
\* task list, same pass, same position in it, hence the same status queries
\* and the same removals in the same passes. They differ in what they fetch
\* for a COMPLETED job (modis: the exact-name object only, and only when the
\* file is not there yet) and in that modis sleeps after the pass that
\* removed the last job.
C29_WaiterVariantsAgreeOnJobs ==
    /\ [](Synced =>
            /\ mw.pc = pc
            /\ mw.tasks = tasks
            /\ mw.snapshot = snapshot
            /\ mw.idx = idx
            /\ mw.local = {a[2] \o TIF : a \in {b \in Range(attempts) : BlobExists(b[2] \o TIF)}}
            /\ pc = "done" => (mw.sleptEmpty <=> snapshot # <<>>))
    /\ [][(mw.pc = "pass" /\ mw'.idx = mw.idx + 1) =>
             /\ mw.snapshot[mw.idx] = snapshot[idx - 1]
             /\ mw'.tasks # mw.tasks <=>
                   lastState[mw.snapshot[mw.idx]] \in {"COMPLETED", "FAILED"}]_vars

\* C29 witness: both waiters are done after a pass in which one job completed
\* and one failed; download_when_complete fetched a part, which modis does not
C29_Witness ==
    /\ Synced
    /\ pc = "done"
    /\ mw.pc = "done"
    /\ Len(snapshot) = 2
    /\ lastState[1] = "COMPLETED"
    /\ lastState[2] = "FAILED"
    /\ mw.sleptEmpty
    /\ mw.local = {}
    /\ transfers > 0

\* C30: a run of check_download_job_and_download_file downloads at most
\* once, and exactly at a status query that returned SUCCEEDED, whether or not
\* the deadline has passed by then; no status query follows the download; and
\* a run that downloaded does not raise GbifDownloadFailure.
C30_OneDownloadAtSucceeded ==
    /\ [](/\ gDownloads <= 1
          /\ gDownloads = 1 => (gStatus = "SUCCEEDED" /\ gPc \in {"returned", "raised"})
          /\ ~(gDownloads = 1 /\ gExc.type = "GbifDownloadFailure"))
    /\ [][gQueries' = gQueries + 1 =>
             (gDownloads' = gDownloads + 1 <=> gStatus' = "SUCCEEDED")]_vars
    /\ [][gDownloads' # gDownloads => gQueries' = gQueries + 1]_vars
    /\ [][gDownloads = 1 => gQueries' = gQueries]_vars

\* C30 witness: the first SUCCEEDED came at a query after the deadline, and
\* the archive was downloaded all the same
C30_Witness ==
    /\ gPc = "returned"
    /\ gDownloads = 1
    /\ gQueries > 1
    /\ gMaxHours = MaxHours
    /\ gElapsed > gMaxHours * SecondsPerHour
    /\ gExc = NoExc

====
